---- MODULE Spec2Model ----
(***************************************************************************)
(* Hotel accounting: the relational store (Invoice, BookingPayment,        *)
(* CardPayment, BankTransaction, ReconciliationMatch), the four file       *)
(* normalizers of server/parsers.ts, runReconciliation of                  *)
(* server/reconciliation.ts and the manual endpoints of server/index.ts.   *)
(*                                                                         *)
(* Time is counted in hours since the epoch (new Date(0) = 0); amounts are *)
(* counted in cents; a text is a sequence of one-character strings.        *)
(***************************************************************************)
EXTENDS Integers, Sequences, FiniteSets, Bags, TLC

\* ------------------------------------------------------------------ bounds
MaxInvoices == 2
MaxBookings == 2
MaxCards    == 1
MaxBanks    == 1
MaxTicks    == 1
\* rows of ImportedFile where requests carry several files, files of one
\* request, rows of ImportedFile where a file is uploaded again, rows of a
\* payment table that uploads append to
MaxImported == 4
MaxBatch    == 3
MaxRepeat   == 2
MaxStored   == 4

\* length of the amount texts that are parsed
MaxAmountLen == 5

\* runReconciliation invocations in flight at a time
MaxInFlight == 2

\* --------------------------------------------------------------- constants
oneDay                   == 24
DATE_TOLERANCE_DAYS      == 5
BANK_DATE_TOLERANCE_DAYS == 60
BOOKING_DATE_TOLERANCE   == 5
AMOUNT_TOLERANCE         == 1
LookbackMonths           == 9

NoId     == 0
NullDate == 0 - 1
NullText == << >>

Day(n) == n * oneDay

\* ------------------------------------------------------------------- texts
tBookingCom == <<"B", "o", "o", "k", "i", "n", "g", ".", "c", "o", "m">>
tVisa       == <<"V", "i", "s", "a">>
tBank       == <<"B", "a", "n", "k">>
tBar        == <<"B", "a", "r">>
tNeu        == <<"N", "e", "u">>
tLi66       == <<"L", "i", " ", "6", "6">>
tNEUAG      == <<"N", "E", "U", " ", "A", "G">>
tRe188      == <<"R", "e", " ", "1", "8", "8">>
tR188       == <<"R", " ", "1", "8", "8">>
tR1         == <<"R", "1">>
tR2         == <<"R", "2">>
tR3         == <<"R", "3">>
tBookingVisa == <<"B", "o", "o", "k", "i", "n", "g", ".", "c", "o", "m", " ",
                  "V", "i", "s", "a">>
tVisaBank   == <<"V", "i", "s", "a", " ", "B", "a", "n", "k">>
tMiete      == <<"M", "i", "e", "t", "e">>
t66         == <<"6", "6">>
t77         == <<"7", "7">>

Digits == {"0", "1", "2", "3", "4", "5", "6", "7", "8", "9"}

\* String.prototype.toLowerCase, per character
UpperChars ==
    <<"A", "B", "C", "D", "E", "F", "G", "H", "I", "J", "K", "L", "M", "N", "O",
      "P", "Q", "R", "S", "T", "U", "V", "W", "X", "Y", "Z", "Ä", "Ö", "Ü">>

LowerChars ==
    <<"a", "b", "c", "d", "e", "f", "g", "h", "i", "j", "k", "l", "m", "n", "o",
      "p", "q", "r", "s", "t", "u", "v", "w", "x", "y", "z", "ä", "ö", "ü">>

LowerOf ==
    [c \in {UpperChars[k] : k \in 1..Len(UpperChars)} |->
        LowerChars[CHOOSE k \in 1..Len(UpperChars) : UpperChars[k] = c]]

LowerChar(c) == IF c \in DOMAIN LowerOf THEN LowerOf[c] ELSE c

toLowerCase(s) == [i \in 1..Len(s) |-> LowerChar(s[i])]

\* String.prototype.includes
includes(s, sub) ==
    \E i \in 0..(Len(s) - Len(sub)) : SubSeq(s, i + 1, i + Len(sub)) = sub

\* Math.abs
Abs(x) == IF x < 0 THEN 0 - x ELSE x

\* Math.round of x / d (half rounds up)
RoundDiv(x, d) == (2 * x + d) \div (2 * d)

\* ---------------------------------------------------- strings and numbers
\* the value of a number that is NaN, and of a Date that is an Invalid Date
NaN         == 0 - 1000000000
InvalidDate == 0 - 2

SetMin(S) == CHOOSE x \in S : \A y \in S : x <= y
SetMax(S) == CHOOSE x \in S : \A y \in S : x >= y

\* the positions of the character c in s
Positions(s, c) == {i \in 1..Len(s) : s[i] = c}

\* String.prototype.trim, on blanks
trim(s) ==
    LET solid == {i \in 1..Len(s) : s[i] # " "} IN
    IF solid = {} THEN << >> ELSE SubSeq(s, SetMin(solid), SetMax(solid))

\* String.prototype.split on one character
RECURSIVE split(_, _)
split(s, c) ==
    IF Positions(s, c) = {} THEN <<s>>
    ELSE LET i == SetMin(Positions(s, c)) IN
         <<SubSeq(s, 1, i - 1)>> \o split(SubSeq(s, i + 1, Len(s)), c)

\* String.prototype.lastIndexOf of one character, counted from 1; 0: absent
lastIndexOf(s, c) ==
    IF Positions(s, c) = {} THEN 0 ELSE SetMax(Positions(s, c))

\* s.replace(/c/g, '')
removeAll(s, c) == SelectSeq(s, LAMBDA x : x # c)

\* s.replace(c, ''): the first occurrence only
removeFirst(s, c) ==
    IF Positions(s, c) = {} THEN s
    ELSE LET i == SetMin(Positions(s, c)) IN
         SubSeq(s, 1, i - 1) \o SubSeq(s, i + 1, Len(s))

\* s.replace(c, r): the first occurrence only
replaceFirst(s, c, r) ==
    IF Positions(s, c) = {} THEN s
    ELSE [s EXCEPT ![SetMin(Positions(s, c))] = r]

DigitChars == <<"0", "1", "2", "3", "4", "5", "6", "7", "8", "9">>

DigitVal(c) == (CHOOSE n \in 1..10 : DigitChars[n] = c) - 1

\* the length of the longest prefix of s made of digits
DigitPrefix(s) ==
    SetMax({n \in 0..Len(s) : \A i \in 1..n : s[i] \in Digits})

\* the number a sequence of digits writes
RECURSIVE ValueOf(_)
ValueOf(ds) ==
    IF ds = << >> THEN 0
    ELSE ValueOf(SubSeq(ds, 1, Len(ds) - 1)) * 10 + DigitVal(ds[Len(ds)])

\* parseInt: blanks, a sign, then the digits up to the first other character
parseInt(str) ==
    LET solid == {i \in 1..Len(str) : str[i] # " "}
        s == IF solid = {} THEN << >>
             ELSE SubSeq(str, SetMin(solid), Len(str))
        signed == s # << >> /\ s[1] \in {"-", "+"}
        rest == IF signed THEN SubSeq(s, 2, Len(s)) ELSE s
        n == DigitPrefix(rest)
    IN  IF n = 0 THEN NaN
        ELSE IF signed /\ s[1] = "-" THEN 0 - ValueOf(SubSeq(rest, 1, n))
        ELSE ValueOf(SubSeq(rest, 1, n))

\* parseFloat of a text of digits, commas, dots and minus signs, in
\* thousandths: a sign, digits, a dot and digits, up to the first character
\* that does not continue a number; decimals past the third are dropped
parseFloat(s) ==
    LET signed == s # << >> /\ s[1] = "-"
        rest == IF signed THEN SubSeq(s, 2, Len(s)) ELSE s
        n == DigitPrefix(rest)
        dotted == Len(rest) > n /\ rest[n + 1] = "."
        tail == IF dotted THEN SubSeq(rest, n + 2, Len(rest)) ELSE << >>
        f == DigitPrefix(tail)
        frac == SubSeq(SubSeq(tail, 1, f) \o <<"0", "0", "0">>, 1, 3)
        abs == ValueOf(SubSeq(rest, 1, n)) * 1000 + ValueOf(frac)
    IN  IF n = 0 /\ f = 0 THEN NaN
        ELSE IF signed THEN 0 - abs ELSE abs

\* days from 1970-01-01 to the first of month m (1..12) of year y
DaysFromCivil(y, m) ==
    LET yy == IF m <= 2 THEN y - 1 ELSE y
        era == yy \div 400
        yoe == yy - era * 400
        mp == IF m > 2 THEN m - 3 ELSE m + 9
        doy == (153 * mp + 2) \div 5
        doe == yoe * 365 + yoe \div 4 - yoe \div 100 + doy
    IN  era * 146097 + doe - 719468

\* getDate(), getMonth() + 1 and getFullYear() of a date
DateFields(t) ==
    LET z == (t \div oneDay) + 719468
        era == z \div 146097
        doe == z - era * 146097
        yoe == (doe - doe \div 1460 + doe \div 36524 - doe \div 146096)
                   \div 365
        doy == doe - (365 * yoe + yoe \div 4 - yoe \div 100)
        mp == (5 * doy + 2) \div 153
        d == doy - (153 * mp + 2) \div 5 + 1
        m == IF mp < 10 THEN mp + 3 ELSE mp - 9
        y == yoe + era * 400 + (IF m <= 2 THEN 1 ELSE 0)
    IN  <<d, m, y>>

\* a Date constructor that counts the month from 1
NewDateMonthFromOne(year, month, day) ==
    IF year = NaN \/ month = NaN \/ day = NaN THEN InvalidDate
    ELSE (DaysFromCivil(year, month) + day - 1) * oneDay

\* new Date(year, month, day): month counted from 0, month and day overflow
\* carried, years 0..99 taken as 1900..1999; the local zone taken as UTC
NewDate(year, month, day) ==
    IF year = NaN \/ month = NaN \/ day = NaN THEN InvalidDate
    ELSE LET y == IF year \in 0..99 THEN 1900 + year ELSE year IN
         (DaysFromCivil(y + (month \div 12), (month % 12) + 1) + day - 1)
             * oneDay

\* new Date(text) for a text of three parts joined by "-" whose first part
\* has four characters
NewDateOfText(parts) ==
    IF /\ \A k \in 1..3 :
            /\ parts[k] # << >>
            /\ DigitPrefix(parts[k]) = Len(parts[k])
       /\ ValueOf(parts[2]) \in 1..12
       /\ ValueOf(parts[3]) \in 1..31
    THEN (DaysFromCivil(ValueOf(parts[1]), ValueOf(parts[2]))
             + ValueOf(parts[3]) - 1) * oneDay
    ELSE InvalidDate

\* the table months of parseDate: <<name, month counted from 0>>
months ==
    {<<<<"J", "a", "n">>, 0>>,
     <<<<"F", "e", "b">>, 1>>,
     <<<<"M", "ä", "r">>, 2>>,
     <<<<"A", "p", "r">>, 3>>,
     <<<<"M", "a", "i">>, 4>>,
     <<<<"J", "u", "n">>, 5>>,
     <<<<"J", "u", "l">>, 6>>,
     <<<<"A", "u", "g">>, 7>>,
     <<<<"S", "e", "p">>, 8>>,
     <<<<"S", "e", "p", "t">>, 8>>,
     <<<<"O", "k", "t">>, 9>>,
     <<<<"N", "o", "v">>, 10>>,
     <<<<"D", "e", "z">>, 11>>,
     <<<<"J", "a", "n", "u", "a", "r">>, 0>>,
     <<<<"F", "e", "b", "r", "u", "a", "r">>, 1>>,
     <<<<"M", "ä", "r", "z">>, 2>>,
     <<<<"A", "p", "r", "i", "l">>, 3>>,
     <<<<"J", "u", "n", "i">>, 5>>,
     <<<<"J", "u", "l", "i">>, 6>>,
     <<<<"A", "u", "g", "u", "s", "t">>, 7>>,
     <<<<"S", "e", "p", "t", "e", "m", "b", "e", "r">>, 8>>,
     <<<<"O", "k", "t", "o", "b", "e", "r">>, 9>>,
     <<<<"N", "o", "v", "e", "m", "b", "e", "r">>, 10>>,
     <<<<"D", "e", "z", "e", "m", "b", "e", "r">>, 11>>,
     <<<<"O", "c", "t">>, 9>>,
     <<<<"D", "e", "c">>, 11>>,
     <<<<"M", "a", "r">>, 2>>,
     <<<<"M", "a", "y">>, 4>>,
     <<<<"J", "a", "n", "u", "a", "r", "y">>, 0>>,
     <<<<"F", "e", "b", "r", "u", "a", "r", "y">>, 1>>,
     <<<<"M", "a", "r", "c", "h">>, 2>>,
     <<<<"J", "u", "n", "e">>, 5>>,
     <<<<"J", "u", "l", "y">>, 6>>,
     <<<<"O", "c", "t", "o", "b", "e", "r">>, 9>>,
     <<<<"D", "e", "c", "e", "m", "b", "e", "r">>, 11>>}

\* months[monthStr]; NaN stands for undefined
MonthOf(name) ==
    IF \E e \in months : e[1] = name
    THEN (CHOOSE e \in months : e[1] = name)[2]
    ELSE NaN

\* parseDate: dd.MM.yyyy or dd.MM.yy, then yyyy-mm-dd or dd-mm-yyyy, then
\* "day month-name year"; NullDate for null
parseDate(dateStr) ==
    LET clean == trim(dateStr)
        dots == split(clean, ".")
        day == parseInt(dots[1])
        month == parseInt(dots[2])
        year == parseInt(dots[3])
        year4 == IF year # NaN /\ year < 100 THEN year + 2000 ELSE year
        dashes == split(clean, "-")
        unquoted == trim(removeAll(removeAll(clean, "'"), "\""))
        verboseParts == split(unquoted, " ")
        vday == parseInt(removeFirst(verboseParts[1], "."))
        vmonth == MonthOf(removeFirst(verboseParts[2], "."))
        vyear == parseInt(verboseParts[3])
    IN  IF dateStr = << >> THEN NullDate
        ELSE IF /\ Positions(clean, ".") # {}
                /\ Len(dots) = 3
                /\ day # NaN /\ month # NaN /\ year # NaN
        THEN NewDate(year4, month - 1, day)
        ELSE IF Positions(clean, "-") # {} /\ Len(dashes) = 3
        THEN IF Len(dashes[1]) = 4 THEN NewDateOfText(dashes)
             ELSE NewDate(parseInt(dashes[3]),
                          IF parseInt(dashes[2]) = NaN THEN NaN
                          ELSE parseInt(dashes[2]) - 1,
                          parseInt(dashes[1]))
        ELSE IF /\ Len(verboseParts) >= 3
                /\ vday # NaN /\ vmonth # NaN /\ vyear # NaN
        THEN NewDate(vyear, vmonth, vday)
        ELSE NullDate

\* the offsets of the server's time zone from UTC, in hours
Zones == {0 - 5, 0, 2}

\* new Date(clean) is reached with a text of the date-only form YYYY-MM-DD,
\* which the engine reads as midnight UTC; every other text it reads, and
\* every new Date(year, month, day), is midnight of the local zone
IsDateOnlyForm(dateStr) ==
    LET clean == trim(dateStr)
        dots == split(clean, ".")
        dashes == split(clean, "-")
    IN  /\ ~(/\ Positions(clean, ".") # {}
             /\ Len(dots) = 3
             /\ \A k \in 1..3 : parseInt(dots[k]) # NaN)
        /\ Positions(clean, "-") # {}
        /\ Len(dashes) = 3
        /\ Len(dashes[1]) = 4 /\ Len(dashes[2]) = 2 /\ Len(dashes[3]) = 2

\* parseDate on a server whose zone is zone hours ahead of UTC; t is the
\* date parseDate gives where the zone is UTC
parseDateIn(zone, dateStr, t) ==
    IF t \in {NullDate, InvalidDate} \/ IsDateOnlyForm(dateStr) THEN t
    ELSE t - zone

\* amountStr.replace(/[^0-9,.-]/g, '')
AmountChars(s) == SelectSeq(s, LAMBDA c : c \in Digits \cup {",", ".", "-"})

\* a parseAmount that takes the comma as the decimal separator always
parseAmountGerman(amountStr) ==
    IF amountStr = << >> THEN 0
    ELSE parseFloat(replaceFirst(removeAll(AmountChars(amountStr), "."),
                        ",", "."))

\* parseAmount, in thousandths: of comma and dot the one that occurs last
\* is the decimal separator; 0 for an empty cell, NaN when no number is left
parseAmount(amountStr) ==
    LET clean == AmountChars(amountStr)
        lastComma == lastIndexOf(clean, ",")
        lastDot == lastIndexOf(clean, ".")
    IN  IF amountStr = << >> THEN 0
        ELSE IF lastComma > lastDot
        THEN parseFloat(replaceFirst(removeAll(clean, "."), ",", "."))
        ELSE IF lastDot > lastComma
        THEN parseFloat(removeAll(clean, ","))
        ELSE parseFloat(clean)

\* ------------------------------------------------------------------- state
VARIABLES
    invoices,          \* Invoice table: sequence, index = id
    bookingPayments,   \* BookingPayment table: sequence, index = id
    cardPayments,      \* CardPayment table: sequence, index = id
    bankTransactions,  \* BankTransaction table: sequence, index = id
    matches,           \* ReconciliationMatch table: bag of rows
    now,               \* the clock read by new Date()
    last,              \* the latest request when it was a PMS-invoice
                       \* upload or a reconciliation: its outcome and, of
                       \* runReconciliation, its locals
    everLinked,        \* <<channel, payment id, invoice id>> of every match
                       \* row ever created
    importedFiles,     \* ImportedFile table: sequence, index = id; written
                       \* by the upload endpoint only and read by no
                       \* reconciliation
    inFlight           \* the runReconciliation invocations that have read
                       \* the tables and await their transaction: what
                       \* each has decided to write

vars == <<invoices, bookingPayments, cardPayments, bankTransactions, matches,
          now, last, everLinked, importedFiles, inFlight>>

Now0 == Day(20400)

NoRequest == [op |-> "none", ok |-> TRUE, type |-> "NONE", count |-> 0,
              rerun |-> FALSE,
              invoices |-> << >>, availableBookings |-> << >>,
              availableCards |-> << >>, availableBanks |-> << >>,
              matchesToCreate |-> << >>, invoiceIdsToReconcile |-> << >>,
              matches |-> 0,
              files |-> << >>, faults |-> << >>, nanStored |-> FALSE,
              status |-> "none", results |-> << >>,
              text |-> << >>, value |-> 0, date |-> << >>,
              zone |-> 0]

Init ==
    /\ invoices = << >>
    /\ bookingPayments = << >>
    /\ cardPayments = << >>
    /\ bankTransactions = << >>
    /\ matches = EmptyBag
    /\ now = Now0
    /\ last = NoRequest
    /\ everLinked = {}
    /\ importedFiles = << >>
    /\ inFlight = << >>

\* the clock advances between requests
Tick ==
    /\ now < Now0 + MaxTicks * oneDay
    /\ now' = now + oneDay
    /\ UNCHANGED <<invoices, bookingPayments, cardPayments, bankTransactions,
                   matches, last, everLinked, importedFiles, inFlight>>

\* ------------------------------------------------------------- normalizers
\* A file is the sequence of its data rows; a row carries the values that
\* parseDate and parseAmount return for its cells (NullDate: not parseable).
iR1   == [date |-> Day(20254), type |-> tBookingCom, number |-> tR1,
          recipient |-> tNeu, amount |-> 8200]
iR2   == [date |-> Day(20254), type |-> tBookingCom, number |-> tR2,
          recipient |-> tLi66, amount |-> 8200]
iR3   == [date |-> Day(20254), type |-> tVisa, number |-> tR3,
          recipient |-> tNeu, amount |-> 8200]
iR188 == [date |-> Day(20148), type |-> tBank, number |-> tR188,
          recipient |-> tNeu, amount |-> 8200]
iBad  == [date |-> NullDate, type |-> tBar, number |-> tR2,
          recipient |-> tNeu, amount |-> 8200]

IbelsaFiles ==
    {<<iR1>>, <<iR2>>, <<iR3>>, <<iR188>>, <<iR1, iR2>>, <<iBad, iR1>>}

b66   == [ref |-> t66, checkIn |-> Day(20249), checkOut |-> Day(20250),
          amount |-> 8200, payout |-> Day(20251)]
b77   == [ref |-> t77, checkIn |-> Day(20249), checkOut |-> Day(20250),
          amount |-> 8200, payout |-> Day(20251)]
bZero == [ref |-> t77, checkIn |-> Day(20249), checkOut |-> Day(20250),
          amount |-> 0, payout |-> Day(20251)]

b77b  == [ref |-> t77, checkIn |-> NullDate, checkOut |-> NullDate,
          amount |-> 8201, payout |-> NullDate]

BookingFiles == {<<b66>>, <<b77>>, <<b77b>>, <<b66, b77>>, <<bZero, b66>>}

kNeu == [date |-> Day(20167), name |-> tNEUAG, desc |-> tRe188,
         amount |-> 8200]
kBad == [date |-> NullDate, name |-> tNEUAG, desc |-> tRe188,
         amount |-> 8200]

BankFiles == {<<kNeu>>, <<kBad, kNeu>>, <<kNeu, kNeu>>}

cVisa == [type |-> tVisa, date |-> Day(20255), amount |-> 0, gross |-> 8200]
cBad  == [type |-> tVisa, date |-> NullDate, amount |-> 8200,
          gross |-> 8200]

NexiFiles == {<<cVisa>>, <<cBad, cVisa>>, <<cVisa, cVisa>>}

\* prisma.invoice.upsert: the create branch
IbelsaCreate(row) ==
    [invoiceDate |-> row.date, paymentType |-> row.type,
     invoiceNumber |-> row.number, recipient |-> row.recipient,
     amount |-> row.amount, isReconciled |-> FALSE,
     reconciledDate |-> NullDate, manualStatus |-> FALSE,
     comment |-> NullText]

\* a slip that writes the file's row over the stored invoice
IbelsaUpdateOverwrites(old, row) == IbelsaCreate(row)

\* prisma.invoice.upsert: the update branch, update: {}
IbelsaUpdate(old, row) == old

\* where: { invoiceNumber: number }
InvoiceIdByNumber(invs, number) ==
    IF \E i \in 1..Len(invs) : invs[i].invoiceNumber = number
    THEN CHOOSE i \in 1..Len(invs) : invs[i].invoiceNumber = number
    ELSE NoId

IbelsaUpsert(invs, row) ==
    LET id == InvoiceIdByNumber(invs, row.number) IN
    IF id = NoId THEN Append(invs, IbelsaCreate(row))
    ELSE [invs EXCEPT ![id] = IbelsaUpdate(invs[id], row)]

\* the row loop of parseIbelsa followed by the transaction of its upserts
RECURSIVE parseIbelsaRows(_, _, _)
parseIbelsaRows(rows, k, acc) ==
    IF k > Len(rows) THEN acc
    ELSE LET row == rows[k] IN
         IF row.date # NullDate /\ row.number # << >>
         THEN parseIbelsaRows(rows, k + 1,
                  [invs |-> IbelsaUpsert(acc.invs, row),
                   count |-> acc.count + 1])
         ELSE parseIbelsaRows(rows, k + 1, acc)

parseIbelsa(file) ==
    LET res == parseIbelsaRows(file, 1, [invs |-> invoices, count |-> 0]) IN
    /\ Len(res.invs) <= MaxInvoices
    /\ invoices' = res.invs
    /\ last' = [NoRequest EXCEPT !.op = "upload", !.type = "IBELSA",
                                 !.count = res.count]
    /\ UNCHANGED <<bookingPayments, cardPayments, bankTransactions, matches,
                   now, everLinked, importedFiles, inFlight>>

\* checkIn || new Date(0)
OrEpoch(d) == IF d = NullDate THEN 0 ELSE d

\* checkIn || undefined: an undefined field is left as stored
OrUndefined(d, stored) == IF d = NullDate THEN stored ELSE d

BookingCreate(row) ==
    [referenceNumber |-> row.ref, checkInDate |-> OrEpoch(row.checkIn),
     checkOutDate |-> OrEpoch(row.checkOut),
     payoutDate |-> OrEpoch(row.payout), amount |-> row.amount]

BookingUpdate(old, row) ==
    [old EXCEPT !.checkInDate = OrUndefined(row.checkIn, old.checkInDate),
                !.checkOutDate = OrUndefined(row.checkOut, old.checkOutDate),
                !.payoutDate = OrUndefined(row.payout, old.payoutDate),
                !.amount = row.amount]

\* an upsert that never finds the stored payment
BookingIdByRefNone(pays, ref) == NoId

\* where: { referenceNumber: ref }
BookingIdByRef(pays, ref) ==
    IF \E i \in 1..Len(pays) : pays[i].referenceNumber = ref
    THEN CHOOSE i \in 1..Len(pays) : pays[i].referenceNumber = ref
    ELSE NoId

BookingUpsert(pays, row) ==
    LET id == BookingIdByRef(pays, row.ref) IN
    IF id = NoId THEN Append(pays, BookingCreate(row))
    ELSE [pays EXCEPT ![id] = BookingUpdate(pays[id], row)]

\* the row loop of parseBooking followed by the transaction of its upserts
RECURSIVE parseBookingRows(_, _, _)
parseBookingRows(rows, k, acc) ==
    IF k > Len(rows) THEN acc
    ELSE LET row == rows[k] IN
         IF row.ref = << >> \/ row.amount \in {0, NaN}
         THEN parseBookingRows(rows, k + 1, acc)
         ELSE parseBookingRows(rows, k + 1,
                  [pays |-> BookingUpsert(acc.pays, row),
                   count |-> acc.count + 1])

parseBooking(file) ==
    LET res == parseBookingRows(file, 1,
                   [pays |-> bookingPayments, count |-> 0]) IN
    /\ Len(res.pays) <= MaxBookings
    /\ bookingPayments' = res.pays
    /\ last' = NoRequest
    /\ UNCHANGED <<invoices, cardPayments, bankTransactions, matches,
                   now, everLinked, importedFiles, inFlight>>

\* the row loop of parseBank: the rows handed to createMany
RECURSIVE parseBankRows(_, _)
parseBankRows(rows, k) ==
    IF k > Len(rows) THEN << >>
    ELSE LET row == rows[k] IN
         IF row.date # NullDate
         THEN <<[bookingDate |-> row.date, senderReceiver |-> row.name,
                 description |-> row.desc, amount |-> row.amount]>>
              \o parseBankRows(rows, k + 1)
         ELSE parseBankRows(rows, k + 1)

parseBank(file) ==
    LET createData == parseBankRows(file, 1) IN
    /\ Len(bankTransactions) + Len(createData) <= MaxBanks
    /\ bankTransactions' = bankTransactions \o createData
    /\ last' = NoRequest
    /\ UNCHANGED <<invoices, bookingPayments, cardPayments, matches,
                   now, everLinked, importedFiles, inFlight>>

\* a normalizer that never takes the gross amount
NexiAmountNet(amount, gross) == amount

\* if (amount === 0 && gross > 0) amount = gross
NexiAmount(amount, gross) == IF amount = 0 /\ gross > 0 THEN gross ELSE amount

\* the row loop of parseNexi: the rows handed to createMany
RECURSIVE parseNexiRows(_, _)
parseNexiRows(rows, k) ==
    IF k > Len(rows) THEN << >>
    ELSE LET row == rows[k] IN
         IF row.date # NullDate
         THEN <<[transactionDate |-> row.date, cardType |-> row.type,
                 amount |-> NexiAmount(row.amount, row.gross),
                 grossAmount |-> row.gross]>>
              \o parseNexiRows(rows, k + 1)
         ELSE parseNexiRows(rows, k + 1)

parseNexi(file) ==
    LET createData == parseNexiRows(file, 1) IN
    /\ Len(cardPayments) + Len(createData) <= MaxCards
    /\ cardPayments' = cardPayments \o createData
    /\ last' = NoRequest
    /\ UNCHANGED <<invoices, bookingPayments, bankTransactions, matches,
                   now, everLinked, importedFiles, inFlight>>

ImportIbelsa  == \E file \in IbelsaFiles : parseIbelsa(file)
ImportBooking == \E file \in BookingFiles : parseBooking(file)
ImportBank    == \E file \in BankFiles : parseBank(file)
ImportNexi    == \E file \in NexiFiles : parseNexi(file)

\* ----------------------------------------------------------- uploaded files
\* A file is the name it was uploaded under and the lines of its content, a
\* line being the text between two line breaks.
\* booking.csv: the export of the online-payout channel
\*   Referenznummer;Anreise;Abreise;Betrag;Datum der Auszahlung
\*   66;10.06.2025;11.06.2025;82,00;12.06.2025
\*   77;10.06.2025;11.06.2025;82,00;12.06.2025
fBooking ==
    [originalName |->
        <<"b", "o", "o", "k", "i", "n", "g", ".", "c", "s", "v">>,
     lines |-> <<
        <<"R", "e", "f", "e", "r", "e", "n", "z", "n", "u", "m", "m", "e",
          "r", ";", "A", "n", "r", "e", "i", "s", "e", ";", "A", "b", "r",
          "e", "i", "s", "e", ";", "B", "e", "t", "r", "a", "g", ";", "D",
          "a", "t", "u", "m", " ", "d", "e", "r", " ", "A", "u", "s", "z",
          "a", "h", "l", "u", "n", "g">>,
        <<"6", "6", ";", "1", "0", ".", "0", "6", ".", "2", "0", "2", "5",
          ";", "1", "1", ".", "0", "6", ".", "2", "0", "2", "5", ";", "8",
          "2", ",", "0", "0", ";", "1", "2", ".", "0", "6", ".", "2", "0",
          "2", "5">>,
        <<"7", "7", ";", "1", "0", ".", "0", "6", ".", "2", "0", "2", "5",
          ";", "1", "1", ".", "0", "6", ".", "2", "0", "2", "5", ";", "8",
          "2", ",", "0", "0", ";", "1", "2", ".", "0", "6", ".", "2", "0",
          "2", "5">>
     >>]

\* dup.csv: one reference number on two rows
\*   Referenznummer;Anreise;Abreise;Betrag;Datum der Auszahlung
\*   66;10.06.2025;11.06.2025;82,00;12.06.2025
\*   66;10.06.2025;11.06.2025;82,02;12.06.2025
fBookingDup ==
    [originalName |->
        <<"d", "u", "p", ".", "c", "s", "v">>,
     lines |-> <<
        <<"R", "e", "f", "e", "r", "e", "n", "z", "n", "u", "m", "m", "e",
          "r", ";", "A", "n", "r", "e", "i", "s", "e", ";", "A", "b", "r",
          "e", "i", "s", "e", ";", "B", "e", "t", "r", "a", "g", ";", "D",
          "a", "t", "u", "m", " ", "d", "e", "r", " ", "A", "u", "s", "z",
          "a", "h", "l", "u", "n", "g">>,
        <<"6", "6", ";", "1", "0", ".", "0", "6", ".", "2", "0", "2", "5",
          ";", "1", "1", ".", "0", "6", ".", "2", "0", "2", "5", ";", "8",
          "2", ",", "0", "0", ";", "1", "2", ".", "0", "6", ".", "2", "0",
          "2", "5">>,
        <<"6", "6", ";", "1", "0", ".", "0", "6", ".", "2", "0", "2", "5",
          ";", "1", "1", ".", "0", "6", ".", "2", "0", "2", "5", ";", "8",
          "2", ",", "0", "2", ";", "1", "2", ".", "0", "6", ".", "2", "0",
          "2", "5">>
     >>]

\* bbad.csv: an amount and a check-in date that do not parse
\*   Referenznummer;Anreise;Abreise;Betrag;Datum der Auszahlung
\*   77;10.06.2025;11.06.2025;abc;12.06.2025
\*   66;xx;11.06.2025;82,00;12.06.2025
fBookingBad ==
    [originalName |->
        <<"b", "b", "a", "d", ".", "c", "s", "v">>,
     lines |-> <<
        <<"R", "e", "f", "e", "r", "e", "n", "z", "n", "u", "m", "m", "e",
          "r", ";", "A", "n", "r", "e", "i", "s", "e", ";", "A", "b", "r",
          "e", "i", "s", "e", ";", "B", "e", "t", "r", "a", "g", ";", "D",
          "a", "t", "u", "m", " ", "d", "e", "r", " ", "A", "u", "s", "z",
          "a", "h", "l", "u", "n", "g">>,
        <<"7", "7", ";", "1", "0", ".", "0", "6", ".", "2", "0", "2", "5",
          ";", "1", "1", ".", "0", "6", ".", "2", "0", "2", "5", ";", "a",
          "b", "c", ";", "1", "2", ".", "0", "6", ".", "2", "0", "2", "5">>,
        <<"6", "6", ";", "x", "x", ";", "1", "1", ".", "0", "6", ".", "2",
          "0", "2", "5", ";", "8", "2", ",", "0", "0", ";", "1", "2", ".",
          "0", "6", ".", "2", "0", "2", "5">>
     >>]

\* noref.csv: no reference column
\*   Booking.com;Betrag;Datum
\*   66;82,00;12.06.2025
fBookingNoRef ==
    [originalName |->
        <<"n", "o", "r", "e", "f", ".", "c", "s", "v">>,
     lines |-> <<
        <<"B", "o", "o", "k", "i", "n", "g", ".", "c", "o", "m", ";", "B",
          "e", "t", "r", "a", "g", ";", "D", "a", "t", "u", "m">>,
        <<"6", "6", ";", "8", "2", ",", "0", "0", ";", "1", "2", ".", "0",
          "6", ".", "2", "0", "2", "5">>
     >>]

\* noamt.csv: no amount column
\*   Reference number;Payout date
\*   66;12.06.2025
fBookingNoAmount ==
    [originalName |->
        <<"n", "o", "a", "m", "t", ".", "c", "s", "v">>,
     lines |-> <<
        <<"R", "e", "f", "e", "r", "e", "n", "c", "e", " ", "n", "u", "m",
          "b", "e", "r", ";", "P", "a", "y", "o", "u", "t", " ", "d", "a",
          "t", "e">>,
        <<"6", "6", ";", "1", "2", ".", "0", "6", ".", "2", "0", "2", "5">>
     >>]

\* ibelsa.csv: the export of the PMS
\*   Rechnungsdatum;Zahlart;Rechnungsnummer;Name;Netto;Betrag
\*   15.06.2025;Booking.com;R1;Neu;;82,00
\*   xx;Bar;R2;Neu;;82,00
fIbelsa ==
    [originalName |->
        <<"i", "b", "e", "l", "s", "a", ".", "c", "s", "v">>,
     lines |-> <<
        <<"R", "e", "c", "h", "n", "u", "n", "g", "s", "d", "a", "t", "u",
          "m", ";", "Z", "a", "h", "l", "a", "r", "t", ";", "R", "e", "c",
          "h", "n", "u", "n", "g", "s", "n", "u", "m", "m", "e", "r", ";",
          "N", "a", "m", "e", ";", "N", "e", "t", "t", "o", ";", "B", "e",
          "t", "r", "a", "g">>,
        <<"1", "5", ".", "0", "6", ".", "2", "0", "2", "5", ";", "B", "o",
          "o", "k", "i", "n", "g", ".", "c", "o", "m", ";", "R", "1", ";",
          "N", "e", "u", ";", ";", "8", "2", ",", "0", "0">>,
        <<"x", "x", ";", "B", "a", "r", ";", "R", "2", ";", "N", "e", "u",
          ";", ";", "8", "2", ",", "0", "0">>
     >>]

\* idup.csv: one invoice number on two rows
\*   Rechnungsdatum;Zahlart;Rechnungsnummer;Name;Netto;Betrag
\*   15.06.2025;Visa;R3;Neu;;82,00
\*   15.06.2025;Bar;R3;Neu;;82,02
fIbelsaDup ==
    [originalName |->
        <<"i", "d", "u", "p", ".", "c", "s", "v">>,
     lines |-> <<
        <<"R", "e", "c", "h", "n", "u", "n", "g", "s", "d", "a", "t", "u",
          "m", ";", "Z", "a", "h", "l", "a", "r", "t", ";", "R", "e", "c",
          "h", "n", "u", "n", "g", "s", "n", "u", "m", "m", "e", "r", ";",
          "N", "a", "m", "e", ";", "N", "e", "t", "t", "o", ";", "B", "e",
          "t", "r", "a", "g">>,
        <<"1", "5", ".", "0", "6", ".", "2", "0", "2", "5", ";", "V", "i",
          "s", "a", ";", "R", "3", ";", "N", "e", "u", ";", ";", "8", "2",
          ",", "0", "0">>,
        <<"1", "5", ".", "0", "6", ".", "2", "0", "2", "5", ";", "B", "a",
          "r", ";", "R", "3", ";", "N", "e", "u", ";", ";", "8", "2", ",",
          "0", "2">>
     >>]

\* inan.csv: an amount that does not parse
\*   Rechnungsdatum;Zahlart;Rechnungsnummer;Name;Netto;Betrag
\*   15.06.2025;Bar;R2;Li 66;;abc
\*   15.06.2025;Visa;R3;Neu;;82,00
fIbelsaNaN ==
    [originalName |->
        <<"i", "n", "a", "n", ".", "c", "s", "v">>,
     lines |-> <<
        <<"R", "e", "c", "h", "n", "u", "n", "g", "s", "d", "a", "t", "u",
          "m", ";", "Z", "a", "h", "l", "a", "r", "t", ";", "R", "e", "c",
          "h", "n", "u", "n", "g", "s", "n", "u", "m", "m", "e", "r", ";",
          "N", "a", "m", "e", ";", "N", "e", "t", "t", "o", ";", "B", "e",
          "t", "r", "a", "g">>,
        <<"1", "5", ".", "0", "6", ".", "2", "0", "2", "5", ";", "B", "a",
          "r", ";", "R", "2", ";", "L", "i", " ", "6", "6", ";", ";", "a",
          "b", "c">>,
        <<"1", "5", ".", "0", "6", ".", "2", "0", "2", "5", ";", "V", "i",
          "s", "a", ";", "R", "3", ";", "N", "e", "u", ";", ";", "8", "2",
          ",", "0", "0">>
     >>]

\* iinv.csv: a date of three parts that is no date
\*   Rechnungsdatum;Zahlart;Rechnungsnummer;Name;Netto;Betrag
\*   2025-13-45;Bar;R2;Li 66;;82,00
\*   15.06.2025;Visa;R3;Neu;;82,00
fIbelsaInvalid ==
    [originalName |->
        <<"i", "i", "n", "v", ".", "c", "s", "v">>,
     lines |-> <<
        <<"R", "e", "c", "h", "n", "u", "n", "g", "s", "d", "a", "t", "u",
          "m", ";", "Z", "a", "h", "l", "a", "r", "t", ";", "R", "e", "c",
          "h", "n", "u", "n", "g", "s", "n", "u", "m", "m", "e", "r", ";",
          "N", "a", "m", "e", ";", "N", "e", "t", "t", "o", ";", "B", "e",
          "t", "r", "a", "g">>,
        <<"2", "0", "2", "5", "-", "1", "3", "-", "4", "5", ";", "B", "a",
          "r", ";", "R", "2", ";", "L", "i", " ", "6", "6", ";", ";", "8",
          "2", ",", "0", "0">>,
        <<"1", "5", ".", "0", "6", ".", "2", "0", "2", "5", ";", "V", "i",
          "s", "a", ";", "R", "3", ";", "N", "e", "u", ";", ";", "8", "2",
          ",", "0", "0">>
     >>]

\* broken.csv: rows of different lengths
\*   Rechnungsdatum;Zahlart;Rechnungsnummer;Name;Netto;Betrag
\*   15.06.2025;Bar;R2;Neu;;82,00
\*   15.06.2025;Bar
fBroken ==
    [originalName |->
        <<"b", "r", "o", "k", "e", "n", ".", "c", "s", "v">>,
     lines |-> <<
        <<"R", "e", "c", "h", "n", "u", "n", "g", "s", "d", "a", "t", "u",
          "m", ";", "Z", "a", "h", "l", "a", "r", "t", ";", "R", "e", "c",
          "h", "n", "u", "n", "g", "s", "n", "u", "m", "m", "e", "r", ";",
          "N", "a", "m", "e", ";", "N", "e", "t", "t", "o", ";", "B", "e",
          "t", "r", "a", "g">>,
        <<"1", "5", ".", "0", "6", ".", "2", "0", "2", "5", ";", "B", "a",
          "r", ";", "R", "2", ";", "N", "e", "u", ";", ";", "8", "2", ",",
          "0", "0">>,
        <<"1", "5", ".", "0", "6", ".", "2", "0", "2", "5", ";", "B", "a",
          "r">>
     >>]

\* bank.csv: the statement of the bank
\*   Buchungstag;Valutadatum;Verwendungszweck;Betrag
\*   ;;;;20.03.2025;;NEU AG;;;;Re 188;82,00
\*   ;;;;xx;;NEU AG;;;;Re 188;82,00
fBank ==
    [originalName |->
        <<"b", "a", "n", "k", ".", "c", "s", "v">>,
     lines |-> <<
        <<"B", "u", "c", "h", "u", "n", "g", "s", "t", "a", "g", ";", "V",
          "a", "l", "u", "t", "a", "d", "a", "t", "u", "m", ";", "V", "e",
          "r", "w", "e", "n", "d", "u", "n", "g", "s", "z", "w", "e", "c",
          "k", ";", "B", "e", "t", "r", "a", "g">>,
        <<";", ";", ";", ";", "2", "0", ".", "0", "3", ".", "2", "0", "2",
          "5", ";", ";", "N", "E", "U", " ", "A", "G", ";", ";", ";", ";",
          "R", "e", " ", "1", "8", "8", ";", "8", "2", ",", "0", "0">>,
        <<";", ";", ";", ";", "x", "x", ";", ";", "N", "E", "U", " ", "A",
          "G", ";", ";", ";", ";", "R", "e", " ", "1", "8", "8", ";", "8",
          "2", ",", "0", "0">>
     >>]

\* knan.csv: an amount that does not parse
\*   Buchungstag;Valutadatum;Verwendungszweck;Betrag
\*   ;;;;20.03.2025;;NEU AG;;;;Miete;abc
\*   ;;;;20.03.2025;;NEU AG;;;;Re 188;82,00
fBankNaN ==
    [originalName |->
        <<"k", "n", "a", "n", ".", "c", "s", "v">>,
     lines |-> <<
        <<"B", "u", "c", "h", "u", "n", "g", "s", "t", "a", "g", ";", "V",
          "a", "l", "u", "t", "a", "d", "a", "t", "u", "m", ";", "V", "e",
          "r", "w", "e", "n", "d", "u", "n", "g", "s", "z", "w", "e", "c",
          "k", ";", "B", "e", "t", "r", "a", "g">>,
        <<";", ";", ";", ";", "2", "0", ".", "0", "3", ".", "2", "0", "2",
          "5", ";", ";", "N", "E", "U", " ", "A", "G", ";", ";", ";", ";",
          "M", "i", "e", "t", "e", ";", "a", "b", "c">>,
        <<";", ";", ";", ";", "2", "0", ".", "0", "3", ".", "2", "0", "2",
          "5", ";", ";", "N", "E", "U", " ", "A", "G", ";", ";", ";", ";",
          "R", "e", " ", "1", "8", "8", ";", "8", "2", ",", "0", "0">>
     >>]

\* nexi.csv: the settlement of the card acquirer
\*   Id;Typ;Transaktionsdatum;Betrag
\*   ;Visa;16.06.2025;;;;;;;;0,00;82,00
\*   ;Visa;xx;;;;;;;;82,00;82,00
fNexi ==
    [originalName |->
        <<"n", "e", "x", "i", ".", "c", "s", "v">>,
     lines |-> <<
        <<"I", "d", ";", "T", "y", "p", ";", "T", "r", "a", "n", "s", "a",
          "k", "t", "i", "o", "n", "s", "d", "a", "t", "u", "m", ";", "B",
          "e", "t", "r", "a", "g">>,
        <<";", "V", "i", "s", "a", ";", "1", "6", ".", "0", "6", ".", "2",
          "0", "2", "5", ";", ";", ";", ";", ";", ";", ";", ";", "0", ",",
          "0", "0", ";", "8", "2", ",", "0", "0">>,
        <<";", "V", "i", "s", "a", ";", "x", "x", ";", ";", ";", ";", ";",
          ";", ";", ";", "8", "2", ",", "0", "0", ";", "8", "2", ",", "0",
          "0">>
     >>]

\* short.csv: rows of two cells
\*   Id;Belegdatum;Umsatz
\*   1;16.06.2025
fNexiShort ==
    [originalName |->
        <<"s", "h", "o", "r", "t", ".", "c", "s", "v">>,
     lines |-> <<
        <<"I", "d", ";", "B", "e", "l", "e", "g", "d", "a", "t", "u", "m",
          ";", "U", "m", "s", "a", "t", "z">>,
        <<"1", ";", "1", "6", ".", "0", "6", ".", "2", "0", "2", "5">>
     >>]

\* generic.csv: comma-separated, known by Date and Amount only
\*   Id,Type,Date,Amount
\*   ,Visa,2025-06-16,,,,,,,,82.00,82.00
fGeneric ==
    [originalName |->
        <<"g", "e", "n", "e", "r", "i", "c", ".", "c", "s", "v">>,
     lines |-> <<
        <<"I", "d", ",", "T", "y", "p", "e", ",", "D", "a", "t", "e", ",",
          "A", "m", "o", "u", "n", "t">>,
        <<",", "V", "i", "s", "a", ",", "2", "0", "2", "5", "-", "0", "6",
          "-", "1", "6", ",", ",", ",", ",", ",", ",", ",", ",", "8", "2",
          ".", "0", "0", ",", "8", "2", ".", "0", "0">>
     >>]

\* bi.csv: a header of the online-payout and of the PMS format
\*   Rechnungsdatum;Rechnungsnummer;Referenznummer;Datum;Zahlart;Betrag
\*   15.06.2025;R1;66;Neu;;82,00
fBookingIbelsa ==
    [originalName |->
        <<"b", "i", ".", "c", "s", "v">>,
     lines |-> <<
        <<"R", "e", "c", "h", "n", "u", "n", "g", "s", "d", "a", "t", "u",
          "m", ";", "R", "e", "c", "h", "n", "u", "n", "g", "s", "n", "u",
          "m", "m", "e", "r", ";", "R", "e", "f", "e", "r", "e", "n", "z",
          "n", "u", "m", "m", "e", "r", ";", "D", "a", "t", "u", "m", ";",
          "Z", "a", "h", "l", "a", "r", "t", ";", "B", "e", "t", "r", "a",
          "g">>,
        <<"1", "5", ".", "0", "6", ".", "2", "0", "2", "5", ";", "R", "1",
          ";", "6", "6", ";", "N", "e", "u", ";", ";", "8", "2", ",", "0",
          "0">>
     >>]

\* ik.csv: a header of the PMS and of the bank format
\*   Rechnungsdatum;Rechnungsnummer;Buchungstag;Verwendungszweck
\*   15.06.2025;Bar;R2;Neu;20.03.2025;82,00;NEU AG;;;;Re 188;82,00
fIbelsaBank ==
    [originalName |->
        <<"i", "k", ".", "c", "s", "v">>,
     lines |-> <<
        <<"R", "e", "c", "h", "n", "u", "n", "g", "s", "d", "a", "t", "u",
          "m", ";", "R", "e", "c", "h", "n", "u", "n", "g", "s", "n", "u",
          "m", "m", "e", "r", ";", "B", "u", "c", "h", "u", "n", "g", "s",
          "t", "a", "g", ";", "V", "e", "r", "w", "e", "n", "d", "u", "n",
          "g", "s", "z", "w", "e", "c", "k">>,
        <<"1", "5", ".", "0", "6", ".", "2", "0", "2", "5", ";", "B", "a",
          "r", ";", "R", "2", ";", "N", "e", "u", ";", "2", "0", ".", "0",
          "3", ".", "2", "0", "2", "5", ";", "8", "2", ",", "0", "0", ";",
          "N", "E", "U", " ", "A", "G", ";", ";", ";", ";", "R", "e", " ",
          "1", "8", "8", ";", "8", "2", ",", "0", "0">>
     >>]

\* kc.csv: a header of the bank and of the card format
\*   Valutadatum;Belegdatum;Betrag
\*   ;Visa;16.06.2025;;20.03.2025;;NEU AG;;;;Re 188;82,00
fBankNexi ==
    [originalName |->
        <<"k", "c", ".", "c", "s", "v">>,
     lines |-> <<
        <<"V", "a", "l", "u", "t", "a", "d", "a", "t", "u", "m", ";", "B",
          "e", "l", "e", "g", "d", "a", "t", "u", "m", ";", "B", "e", "t",
          "r", "a", "g">>,
        <<";", "V", "i", "s", "a", ";", "1", "6", ".", "0", "6", ".", "2",
          "0", "2", "5", ";", ";", "2", "0", ".", "0", "3", ".", "2", "0",
          "2", "5", ";", ";", "N", "E", "U", " ", "A", "G", ";", ";", ";",
          ";", "R", "e", " ", "1", "8", "8", ";", "8", "2", ",", "0", "0">>
     >>]

\* unknown.csv: the tokens in lower case, and a known token below the header
\*   rechnungsdatum;rechnungsnummer;date;amount
\*   15.06.2025;Booking.com;R1;Neu;;82,00
fUnknown ==
    [originalName |->
        <<"u", "n", "k", "n", "o", "w", "n", ".", "c", "s", "v">>,
     lines |-> <<
        <<"r", "e", "c", "h", "n", "u", "n", "g", "s", "d", "a", "t", "u",
          "m", ";", "r", "e", "c", "h", "n", "u", "n", "g", "s", "n", "u",
          "m", "m", "e", "r", ";", "d", "a", "t", "e", ";", "a", "m", "o",
          "u", "n", "t">>,
        <<"1", "5", ".", "0", "6", ".", "2", "0", "2", "5", ";", "B", "o",
          "o", "k", "i", "n", "g", ".", "c", "o", "m", ";", "R", "1", ";",
          "N", "e", "u", ";", ";", "8", "2", ",", "0", "0">>
     >>]

Files ==
    {fBooking, fBookingDup, fBookingBad, fBookingNoRef, fBookingNoAmount,
     fIbelsa, fIbelsaDup, fIbelsaNaN, fIbelsaInvalid, fBroken, fBank,
     fBankNaN, fNexi, fNexiShort, fGeneric, fBookingIbelsa, fIbelsaBank,
     fBankNexi, fUnknown}

\* the texts of an amount cell, each with the amount in cents it stands for
AmountCases ==
    {[text |-> <<"0", ",", "0", "0">>, cents |-> 0],
     [text |-> <<"0">>, cents |-> 0],
     [text |-> << >>, cents |-> 0],
     [text |-> <<"4", "5", ",", "5", "0">>, cents |-> 4550],
     [text |-> <<"-", "4", "5", ",", "5", "0">>, cents |-> 0 - 4550],
     [text |-> <<"8", "2", ".", "0", "0">>, cents |-> 8200],
     [text |-> <<"a", "b", "c">>, cents |-> NaN]}

\* a card-settlement file of one row, net (row[10]) and gross (row[11]):
\*   Id;Typ;Transaktionsdatum;Betrag
\*   ;Visa;16.06.2025;;;;;;;;<net>;<gross>
CardFile(net, gross) ==
    [originalName |-> net.text \o <<"_">> \o gross.text
                          \o <<".", "c", "s", "v">>,
     lines |-> <<
        <<"I", "d", ";", "T", "y", "p", ";", "T", "r", "a", "n", "s", "a",
          "k", "t", "i", "o", "n", "s", "d", "a", "t", "u", "m", ";", "B",
          "e", "t", "r", "a", "g">>,
        <<";", "V", "i", "s", "a", ";", "1", "6", ".", "0", "6", ".", "2",
          "0", "2", "5", ";", ";", ";", ";", ";", ";", ";", ";">>
            \o net.text \o <<";">> \o gross.text
     >>]

CardFiles == {CardFile(net, gross) : net \in AmountCases, gross \in AmountCases}


\* the header tokens of processFile, and the header words of parseBooking
wReferenznummer ==
    <<"R", "e", "f", "e", "r", "e", "n", "z", "n", "u", "m", "m", "e", "r">>
wDatum == <<"D", "a", "t", "u", "m">>
wBookingCom == <<"B", "o", "o", "k", "i", "n", "g", ".", "c", "o", "m">>
wReferenceNumber ==
    <<"R", "e", "f", "e", "r", "e", "n", "c", "e", " ", "n", "u", "m", "b",
      "e", "r">>
wPayoutDate == <<"P", "a", "y", "o", "u", "t", " ", "d", "a", "t", "e">>
wRechnungsdatum ==
    <<"R", "e", "c", "h", "n", "u", "n", "g", "s", "d", "a", "t", "u", "m">>
wRechnungsnummer ==
    <<"R", "e", "c", "h", "n", "u", "n", "g", "s", "n", "u", "m", "m", "e",
      "r">>
wIbelsa == <<"i", "b", "e", "l", "s", "a">>
wBuchungstag == <<"B", "u", "c", "h", "u", "n", "g", "s", "t", "a", "g">>
wVerwendungszweck ==
    <<"V", "e", "r", "w", "e", "n", "d", "u", "n", "g", "s", "z", "w", "e",
      "c", "k">>
wValutadatum == <<"V", "a", "l", "u", "t", "a", "d", "a", "t", "u", "m">>
wTransaktionsdatum ==
    <<"T", "r", "a", "n", "s", "a", "k", "t", "i", "o", "n", "s", "d", "a",
      "t", "u", "m">>
wBelegdatum == <<"B", "e", "l", "e", "g", "d", "a", "t", "u", "m">>
wUmsatz == <<"U", "m", "s", "a", "t", "z">>
wBetrag == <<"B", "e", "t", "r", "a", "g">>
wDate == <<"D", "a", "t", "e">>
wAmount == <<"A", "m", "o", "u", "n", "t">>
hReferenz == <<"r", "e", "f", "e", "r", "e", "n", "z">>
hReference == <<"r", "e", "f", "e", "r", "e", "n", "c", "e">>
hBookingNumber ==
    <<"b", "o", "o", "k", "i", "n", "g", " ", "n", "u", "m", "b", "e", "r">>
hCheckIn == <<"c", "h", "e", "c", "k", "-", "i", "n">>
hAnreise == <<"a", "n", "r", "e", "i", "s", "e">>
hCheckOut == <<"c", "h", "e", "c", "k", "-", "o", "u", "t">>
hAbreise == <<"a", "b", "r", "e", "i", "s", "e">>
hBetrag == <<"b", "e", "t", "r", "a", "g">>
hAmount == <<"a", "m", "o", "u", "n", "t">>
hTotal == <<"t", "o", "t", "a", "l">>
hAuszahlungsdatum ==
    <<"a", "u", "s", "z", "a", "h", "l", "u", "n", "g", "s", "d", "a", "t",
      "u", "m">>
hPayoutDate == <<"p", "a", "y", "o", "u", "t", " ", "d", "a", "t", "e">>
hDatumDerAuszahlung ==
    <<"d", "a", "t", "u", "m", " ", "d", "e", "r", " ", "a", "u", "s", "z",
      "a", "h", "l", "u", "n", "g">>

\* const header = lines[0]
header(file) == file.lines[1]

\* detectDelimiter
detectDelimiter(file) ==
    IF includes(header(file), <<";">>) THEN ";"
    ELSE IF includes(header(file), <<"\t">>) THEN "\t"
    ELSE ","

\* csv-parse with { delimiter, from_line }: one record per line from
\* from_line on (the files carry no quotes and no empty lines)
Records(file, from_line) ==
    [k \in 1..(Len(file.lines) - from_line + 1) |->
        split(file.lines[k + from_line - 1], detectDelimiter(file))]

\* csv-parse hands err to the callback when a record has not the length of
\* the first record (relax_column_count is not set)
RecordLengthError(records) ==
    \E k \in DOMAIN records : Len(records[k]) # Len(records[1])

\* row[i], counted from 0; undefined (here: no text) outside the row
Cell(row, i) == IF i >= 0 /\ i < Len(row) THEN row[i + 1] ELSE << >>

\* the stored double, in cents, of a number in thousandths (the amounts of
\* the files have two decimals at most)
Cents(a) == IF a = NaN THEN NaN ELSE a \div 10

\* the promise of a normalizer: resolved with its ParsedData, rejected, or
\* never settled, and the store it leaves
ParsedData(type, count, minDate, maxDate, logs) ==
    [type |-> type, count |-> count, dateRangeStart |-> minDate,
     dateRangeEnd |-> maxDate, logs |-> logs]

NoData == ParsedData("NONE", 0, NullDate, NullDate, NullText)

Resolved(store, data) ==
    [outcome |-> "resolved", store |-> store, result |-> data]

\* reject(err)
Rejected(store) == [outcome |-> "rejected", store |-> store, result |-> NoData]

\* the await inside the callback of csv-parse rejects: nothing awaits the
\* callback, so neither resolve nor reject is ever called (or the process
\* ends on the unhandled rejection)
Pending(store) == [outcome |-> "pending", store |-> store, result |-> NoData]

\* minDate || undefined, maxDate || undefined
MinDate(dates) == IF dates = {} THEN NullDate ELSE SetMin(dates)
MaxDate(dates) == IF dates = {} THEN NullDate ELSE SetMax(dates)

\* prisma.$transaction(upsertOps) or createMany({ data }) rejects: the store
\* is down, a Date of the data is an Invalid Date, or an amount is NaN and
\* the client does not take it
WriteRejects(down, dates, amounts, nanStored) ==
    \/ down
    \/ InvalidDate \in dates
    \/ NaN \in amounts /\ ~nanStored

\* the cells parseIbelsa reads of a record
IbelsaRow(row) ==
    [date |-> parseDate(Cell(row, 0)), type |-> Cell(row, 1),
     number |-> Cell(row, 2), recipient |-> Cell(row, 3),
     amount |-> Cents(parseAmount(Cell(row, 5)))]

\* what parseIbelsa reads of a file: the err of csv-parse, the cells of the
\* records
ReadIbelsa(file) ==
    LET records == Records(file, 2) IN
    IF RecordLengthError(records) THEN [err |-> TRUE, rows |-> << >>]
    ELSE [err |-> FALSE,
          rows |-> << >> \o [k \in DOMAIN records |-> IbelsaRow(records[k])]]

\* the cells parseBank reads of a record
BankRow(row) ==
    [date |-> parseDate(Cell(row, 4)), name |-> Cell(row, 6),
     desc |-> Cell(row, 10), amount |-> Cents(parseAmount(Cell(row, 11)))]

\* what parseBank reads of a file
ReadBank(file) ==
    LET records == Records(file, 2) IN
    IF RecordLengthError(records) THEN [err |-> TRUE, rows |-> << >>]
    ELSE [err |-> FALSE,
          rows |-> << >> \o [k \in DOMAIN records |-> BankRow(records[k])]]

\* the cells parseNexi reads of a record
NexiRow(row) ==
    [type |-> Cell(row, 1), date |-> parseDate(Cell(row, 2)),
     amount |-> Cents(parseAmount(Cell(row, 10))),
     gross |-> Cents(parseAmount(Cell(row, 11)))]

\* what parseNexi reads of a file: if (row.length < 3) continue
ReadNexi(file) ==
    LET records == Records(file, 2) IN
    IF RecordLengthError(records) THEN [err |-> TRUE, rows |-> << >>]
    ELSE LET long == SelectSeq(records, LAMBDA row : ~(Len(row) < 3)) IN
         [err |-> FALSE,
          rows |-> << >> \o [k \in DOMAIN long |-> NexiRow(long[k])]]

\* a findIndex that gives the first column when no cell holds a word
findIndexOrFirst(cells, words) ==
    LET hits == {i \in 1..Len(cells) :
                    \E w \in words : includes(cells[i], w)} IN
    IF hits = {} THEN 0 ELSE SetMin(hits) - 1

\* header.findIndex(h => h.includes(w) for a word w of words), -1: none
findIndex(cells, words) ==
    LET hits == {i \in 1..Len(cells) :
                    \E w \in words : includes(cells[i], w)} IN
    IF hits = {} THEN 0 - 1 ELSE SetMin(hits) - 1

\* colMap of parseBooking, of the lower-cased and trimmed header cells
ColMap(record) ==
    LET cells == [i \in 1..Len(record) |-> trim(toLowerCase(record[i]))] IN
    [ref |-> findIndex(cells, {hReferenz, hReference, hBookingNumber}),
     checkIn |-> findIndex(cells, {hCheckIn, hAnreise}),
     checkOut |-> findIndex(cells, {hCheckOut, hAbreise}),
     amount |-> findIndex(cells, {hBetrag, hAmount, hTotal}),
     payout |-> findIndex(cells,
                    {hAuszahlungsdatum, hPayoutDate, hDatumDerAuszahlung})]

\* colMap.x > -1 ? parseDate(row[colMap.x]) : null
DateAt(row, col) == IF col > 0 - 1 THEN parseDate(Cell(row, col)) ELSE NullDate

\* the cells parseBooking reads of a record
BookingRow(row, colMap) ==
    [ref |-> Cell(row, colMap.ref),
     checkIn |-> DateAt(row, colMap.checkIn),
     checkOut |-> DateAt(row, colMap.checkOut),
     amount |-> Cents(parseAmount(Cell(row, colMap.amount))),
     payout |-> DateAt(row, colMap.payout)]

LogTooShort == <<"File too short, no data rows">>
LogColumnMapping(colMap) == <<"Column Mapping", colMap>>
LogCritical == <<"Critical columns missing (Reference or Amount)">>

NoColMap ==
    [ref |-> 0 - 1, checkIn |-> 0 - 1, checkOut |-> 0 - 1, amount |-> 0 - 1,
     payout |-> 0 - 1]

\* what parseBooking reads of a file: the err of csv-parse, records.length
\* < 2, the colMap of the first record, the cells of the records below it
ReadBooking(file) ==
    LET records == Records(file, 1) IN
    IF RecordLengthError(records)
    THEN [err |-> TRUE, short |-> FALSE, colMap |-> NoColMap, rows |-> << >>]
    ELSE IF Len(records) < 2
    THEN [err |-> FALSE, short |-> TRUE, colMap |-> NoColMap, rows |-> << >>]
    ELSE LET colMap == ColMap(records[1]) IN
         [err |-> FALSE, short |-> FALSE, colMap |-> colMap,
          rows |-> << >> \o [k \in 1..(Len(records) - 1) |->
                                BookingRow(records[k + 1], colMap)]]

\* the tests of processFile on the header line, in its order
IsBookingHeader(h) ==
    \/ includes(h, wReferenznummer) /\ includes(h, wDatum)
    \/ includes(h, wBookingCom)
    \/ includes(h, wReferenceNumber) /\ includes(h, wPayoutDate)

IsIbelsaHeader(h) ==
    \/ includes(h, wRechnungsdatum) /\ includes(h, wRechnungsnummer)
    \/ includes(h, wIbelsa)

IsBankHeader(h) ==
    \/ includes(h, wBuchungstag) /\ includes(h, wVerwendungszweck)
    \/ includes(h, wValutadatum)

IsNexiHeader(h) ==
    /\ includes(h, wTransaktionsdatum) \/ includes(h, wBelegdatum)
    /\ includes(h, wUmsatz) \/ includes(h, wBetrag)

IsGenericHeader(h) == includes(h, wDate) /\ includes(h, wAmount)

\* what processFile and the normalizers read of a file: the tests on the
\* header line and the cells of the records
Reading(file) ==
    [isBooking |-> IsBookingHeader(header(file)),
     isIbelsa |-> IsIbelsaHeader(header(file)),
     isBank |-> IsBankHeader(header(file)),
     isNexi |-> IsNexiHeader(header(file)),
     isGeneric |-> IsGenericHeader(header(file)),
     booking |-> ReadBooking(file), ibelsa |-> ReadIbelsa(file),
     bank |-> ReadBank(file), nexi |-> ReadNexi(file)]

\* the readings of the files that are uploaded, read once
Readings == {<<file, Reading(file)>> : file \in Files \cup CardFiles}

ReadingOf(file) == (CHOOSE p \in Readings : p[1] = file)[2]

\* parseIbelsa(content) on a store, read: what it reads of the content
parseIbelsaContent(read, store, down, nanStored) ==
    IF read.err THEN Rejected(store)
    ELSE
    LET rows == read.rows
        ops == SelectSeq(rows,
                   LAMBDA r : r.date # NullDate /\ r.number # << >>)
        dates == {ops[k].date : k \in DOMAIN ops}
        amounts == {ops[k].amount : k \in DOMAIN ops}
        res == parseIbelsaRows(rows, 1,
                   [invs |-> store.invoices, count |-> 0])
    IN  IF Len(ops) > 0 /\ WriteRejects(down, dates, amounts, nanStored)
        THEN Pending(store)
        ELSE Resolved([store EXCEPT !.invoices = res.invs],
                 ParsedData("IBELSA", res.count, MinDate(dates),
                     MaxDate(dates), NullText))

\* a createMany that leaves out the rows the table holds already
createManyOnce(table, data) ==
    table \o SelectSeq(data,
                 LAMBDA row : \A i \in DOMAIN table : table[i] # row)

\* prisma.bankTransaction.createMany, prisma.cardPayment.createMany
createMany(table, data) == table \o data

\* parseBank(content) on a store, read: what it reads of the content
parseBankContent(read, store, down, nanStored) ==
    IF read.err THEN Rejected(store)
    ELSE
    LET rows == read.rows
        createData == parseBankRows(rows, 1)
        dates == {createData[k].bookingDate : k \in DOMAIN createData}
        amounts == {createData[k].amount : k \in DOMAIN createData}
    IN  IF Len(createData) > 0
           /\ WriteRejects(down, dates, amounts, nanStored)
        THEN Pending(store)
        ELSE Resolved([store EXCEPT !.bankTransactions =
                               createMany(@, createData)],
                 ParsedData("BANK", Len(createData), MinDate(dates),
                     MaxDate(dates), NullText))

\* parseNexi(content) on a store, read: what it reads of the content
parseNexiContent(read, store, down, nanStored) ==
    IF read.err THEN Rejected(store)
    ELSE
    LET rows == read.rows
        createData == parseNexiRows(rows, 1)
        dates == {createData[k].transactionDate : k \in DOMAIN createData}
        amounts == {createData[k].amount : k \in DOMAIN createData}
                       \cup {createData[k].grossAmount :
                                k \in DOMAIN createData}
    IN  IF Len(createData) > 0
           /\ WriteRejects(down, dates, amounts, nanStored)
        THEN Pending(store)
        ELSE Resolved([store EXCEPT !.cardPayments =
                               createMany(@, createData)],
                 ParsedData("NEXI", Len(createData), MinDate(dates),
                     MaxDate(dates), NullText))

\* parseBooking(content) on a store, read: what it reads of the content
parseBookingContent(read, store, down, nanStored) ==
    IF read.err THEN Rejected(store)
    ELSE IF read.short
    THEN Resolved(store,
             ParsedData("BOOKING", 0, NullDate, NullDate, <<LogTooShort>>))
    ELSE
    LET colMap == read.colMap
        logs == <<LogColumnMapping(colMap)>>
    IN
    IF colMap.ref = 0 - 1 \/ colMap.amount = 0 - 1
    THEN Resolved(store,
             ParsedData("BOOKING", 0, NullDate, NullDate,
                 Append(logs, LogCritical)))
    ELSE
    LET rows == read.rows
        ops == SelectSeq(rows,
                   LAMBDA r : ~(r.ref = << >> \/ r.amount \in {0, NaN}))
        dates == UNION {{OrEpoch(ops[k].checkIn), OrEpoch(ops[k].checkOut),
                         OrEpoch(ops[k].payout)} : k \in DOMAIN ops}
        res == parseBookingRows(rows, 1,
                   [pays |-> store.bookingPayments, count |-> 0])
    IN  IF Len(ops) > 0 /\ WriteRejects(down, dates, {}, nanStored)
        THEN Pending(store)
        ELSE Resolved([store EXCEPT !.bookingPayments = res.pays],
                 ParsedData("BOOKING", res.count,
                     MinDate({ops[k].checkIn : k \in DOMAIN ops}
                                 \ {NullDate}),
                     MaxDate({ops[k].payout : k \in DOMAIN ops}
                                 \ {NullDate}),
                     logs))

\* a dispatch that tries the PMS format before the online-payout format
processContentIbelsaFirst(read, store, down, nanStored) ==
    IF read.isIbelsa
    THEN parseIbelsaContent(read.ibelsa, store, down, nanStored)
    ELSE IF read.isBooking
    THEN parseBookingContent(read.booking, store, down, nanStored)
    ELSE IF read.isBank
    THEN parseBankContent(read.bank, store, down, nanStored)
    ELSE IF read.isNexi \/ read.isGeneric
    THEN parseNexiContent(read.nexi, store, down, nanStored)
    ELSE Resolved(store,
             ParsedData("UNKNOWN", 0, NullDate, NullDate, NullText))

\* the dispatch of processFile on the header line, in its order
processContent(read, store, down, nanStored) ==
    IF read.isBooking
    THEN parseBookingContent(read.booking, store, down, nanStored)
    ELSE IF read.isIbelsa
    THEN parseIbelsaContent(read.ibelsa, store, down, nanStored)
    ELSE IF read.isBank
    THEN parseBankContent(read.bank, store, down, nanStored)
    ELSE IF read.isNexi
    THEN parseNexiContent(read.nexi, store, down, nanStored)
    ELSE IF read.isGeneric
    THEN parseNexiContent(read.nexi, store, down, nanStored)
    ELSE Resolved(store,
             ParsedData("UNKNOWN", 0, NullDate, NullDate, NullText))

\* processFile(filePath) on a store, for a file of Files
processFile(file, store, down, nanStored) ==
    processContent(ReadingOf(file), store, down, nanStored)

\* ------------------------------------------------------ reconciliation.ts
\* nineMonthsAgo.setMonth(nineMonthsAgo.getMonth() - 9): the same day of the
\* month and time of day nine calendar months earlier, overflow carried
nineMonthsAgo(t) ==
    LET f == DateFields(t) IN
    NewDate(f[3], f[2] - 1 - LookbackMonths, f[1]) + (t % oneDay)

\* pairs of amounts one cent apart whose difference as IEEE doubles is above
\* 0.01 (82.01 - 82.00 = 0.010000000000005116)
OneCentAbove == {<<8200, 8201>>}

\* a matcher without the amount check
AmountDiffExceedsNever(a, b) == FALSE

\* Math.abs(payment.amount - invoice.amount) > AMOUNT_TOLERANCE
AmountDiffExceeds(a, b) ==
    LET lo == IF a < b THEN a ELSE b
        hi == IF a < b THEN b ELSE a
    IN  \/ hi - lo > AMOUNT_TOLERANCE
        \/ hi - lo = AMOUNT_TOLERANCE /\ <<lo, hi>> \in OneCentAbove

differenceInDays(d1, d2) == RoundDiv(d1 - d2, oneDay)

isCardPayment(type) ==
    LET t == toLowerCase(type) IN
    \/ includes(t, <<"e", "c", "-", "k", "a", "r", "t", "e">>)
    \/ includes(t, <<"v", "i", "s", "a">>)
    \/ includes(t, <<"m", "a", "s", "t", "e", "r", "c", "a", "r", "d">>)
    \/ includes(t, <<"m", "a", "e", "s", "t", "r", "o">>)
    \/ includes(t, <<"v", "i", "s", "a", " ", "e", "l", "e", "c", "t", "r",
                     "o", "n">>)

\* fullNumber.match(/(\d+)/): the first run of digits, NullText when none
extractInvoiceNumber(fullNumber) ==
    LET starts == {i \in 1..Len(fullNumber) : fullNumber[i] \in Digits} IN
    IF starts = {} THEN NullText
    ELSE LET a == CHOOSE i \in starts : \A j \in starts : i <= j
             ends == {j \in a..Len(fullNumber) :
                         \A k \in a..j : fullNumber[k] \in Digits}
             b == CHOOSE j \in ends : \A k \in ends : k <= j
         IN  SubSeq(fullNumber, a, b)

\* the permutations of a set of ids: the orders in which a findMany without
\* orderBy may return the rows
Orders(S) ==
    {f \in [1..Cardinality(S) -> S] :
        \A i, j \in 1..Cardinality(S) : f[i] = f[j] => i = j}

\* a load of online payouts that does not include their matches
MatchesOfBookingNone(id) == {}

\* include: { matches: { select: { id: true } } }
MatchesOfBooking(id) == {m \in BagToSet(matches) : m.bookingPaymentId = id}
MatchesOfCard(id)    == {m \in BagToSet(matches) : m.cardPaymentId = id}
MatchesOfBank(id)    == {m \in BagToSet(matches) : m.bankTransactionId = id}
MatchesOfInvoice(id) == {m \in BagToSet(matches) : m.invoiceId = id}

\* a load that does not filter on isReconciled
AllInvoices == 1..Len(invoices)

\* prisma.invoice.findMany({ where: { isReconciled: false } })
UnreconciledInvoices ==
    {i \in 1..Len(invoices) : ~invoices[i].isReconciled}

\* a load of the online payouts without the where clause
LoadedBookingsAll == 1..Len(bookingPayments)

\* where: { checkInDate: { gte: nineMonthsAgo } }
LoadedBookings ==
    {i \in 1..Len(bookingPayments) :
        bookingPayments[i].checkInDate >= nineMonthsAgo(now)}

\* where: { transactionDate: { gte: nineMonthsAgo } }
LoadedCards ==
    {i \in 1..Len(cardPayments) :
        cardPayments[i].transactionDate >= nineMonthsAgo(now)}

\* where: { bookingDate: { gte: nineMonthsAgo } }
LoadedBanks ==
    {i \in 1..Len(bankTransactions) :
        bankTransactions[i].bookingDate >= nineMonthsAgo(now)}

\* a candidate list that keeps the payments that have a match
AvailableAll(loaded, matchesOf) == loaded

\* payments.filter(p => p.matches.length === 0); matchesOf maps the id of a
\* loaded payment to its included matches
Available(loaded, matchesOf) ==
    SelectSeq(loaded, LAMBDA id : matchesOf[id] = {})

\* a matcher that never consults the set of payments used in this run
IsClaimedNever(matchedIds, id) == FALSE

\* matchedIds.has(payment.id)
IsClaimed(matchedIds, id) == id \in matchedIds

NoMatch == [invoiceId |-> NoId, bookingPaymentId |-> NoId,
            cardPaymentId |-> NoId, bankTransactionId |-> NoId,
            matchType |-> "NONE", confidence |-> 0]

\* the rule of matchBookingInMemory for one payment
BookingRefMatch(invoice, payment) ==
    \/ includes(invoice.recipient, payment.referenceNumber)
    \/ /\ invoice.comment # NullText
       /\ includes(invoice.comment, payment.referenceNumber)

BookingDateMatch(invoice, payment) ==
    /\ invoice.invoiceDate >=
           payment.checkInDate - BOOKING_DATE_TOLERANCE * oneDay
    /\ invoice.invoiceDate <=
           payment.payoutDate + BOOKING_DATE_TOLERANCE * oneDay

BookingRule(invoice, payment) ==
    /\ ~AmountDiffExceeds(payment.amount, invoice.amount)
    /\ BookingDateMatch(invoice, payment) \/ BookingRefMatch(invoice, payment)

\* returns the match pushed to results, NoMatch for "return false"
RECURSIVE matchBookingInMemory(_, _, _, _, _)
matchBookingInMemory(invoiceId, invoice, payments, matchedIds, k) ==
    IF k > Len(payments) THEN NoMatch
    ELSE LET payment == bookingPayments[payments[k]] IN
         IF IsClaimed(matchedIds, payments[k])
         THEN matchBookingInMemory(invoiceId, invoice, payments, matchedIds,
                                   k + 1)
         ELSE IF BookingRule(invoice, payment)
         THEN [NoMatch EXCEPT
                  !.invoiceId = invoiceId,
                  !.bookingPaymentId = payments[k],
                  !.matchType = IF BookingRefMatch(invoice, payment)
                                THEN "MANUAL_REF" ELSE "AUTOMATIC",
                  !.confidence = IF BookingRefMatch(invoice, payment)
                                 THEN 100 ELSE 85]
         ELSE matchBookingInMemory(invoiceId, invoice, payments, matchedIds,
                                   k + 1)

NexiRule(invoice, payment) ==
    /\ ~AmountDiffExceeds(payment.amount, invoice.amount)
    /\ Abs(differenceInDays(invoice.invoiceDate, payment.transactionDate))
           <= DATE_TOLERANCE_DAYS

RECURSIVE matchNexiInMemory(_, _, _, _, _)
matchNexiInMemory(invoiceId, invoice, payments, matchedIds, k) ==
    IF k > Len(payments) THEN NoMatch
    ELSE LET payment == cardPayments[payments[k]] IN
         IF IsClaimed(matchedIds, payments[k])
         THEN matchNexiInMemory(invoiceId, invoice, payments, matchedIds,
                                k + 1)
         ELSE IF NexiRule(invoice, payment)
         THEN [NoMatch EXCEPT !.invoiceId = invoiceId,
                              !.cardPaymentId = payments[k],
                              !.matchType = "AUTOMATIC",
                              !.confidence = 90]
         ELSE matchNexiInMemory(invoiceId, invoice, payments, matchedIds,
                                k + 1)

BankNameMatch(invoice, payment) ==
    /\ payment.senderReceiver # NullText
    /\ invoice.recipient # NullText
    /\ \/ includes(toLowerCase(payment.senderReceiver),
                   toLowerCase(invoice.recipient))
       \/ includes(toLowerCase(invoice.recipient),
                   toLowerCase(payment.senderReceiver))

\* a bank matcher that does not look at the description
BankDescMatchNever(invoice, payment) == FALSE

BankDescMatch(invoice, payment) ==
    /\ extractInvoiceNumber(invoice.invoiceNumber) # NullText
    /\ payment.description # NullText
    /\ includes(payment.description,
                extractInvoiceNumber(invoice.invoiceNumber))

BankRule(invoice, payment) ==
    /\ ~AmountDiffExceeds(payment.amount, invoice.amount)
    /\ Abs(differenceInDays(invoice.invoiceDate, payment.bookingDate))
           <= BANK_DATE_TOLERANCE_DAYS
    /\ BankNameMatch(invoice, payment) \/ BankDescMatch(invoice, payment)

RECURSIVE matchBankInMemory(_, _, _, _, _)
matchBankInMemory(invoiceId, invoice, payments, matchedIds, k) ==
    IF k > Len(payments) THEN NoMatch
    ELSE LET payment == bankTransactions[payments[k]] IN
         IF IsClaimed(matchedIds, payments[k])
         THEN matchBankInMemory(invoiceId, invoice, payments, matchedIds,
                                k + 1)
         ELSE IF BankRule(invoice, payment)
         THEN [NoMatch EXCEPT
                  !.invoiceId = invoiceId,
                  !.bankTransactionId = payments[k],
                  !.matchType = IF BankDescMatch(invoice, payment)
                                THEN "MANUAL_REF" ELSE "AUTOMATIC",
                  !.confidence = IF BankDescMatch(invoice, payment)
                                 THEN 100 ELSE 80]
         ELSE matchBankInMemory(invoiceId, invoice, payments, matchedIds,
                                k + 1)

\* a dispatch that tests the card words first
ChannelCardFirst(invoice) ==
    IF isCardPayment(invoice.paymentType) THEN "NEXI"
    ELSE IF includes(toLowerCase(invoice.paymentType),
                     <<"b", "o", "o", "k", "i", "n", "g", ".", "c", "o", "m">>)
    THEN "BOOKING"
    ELSE IF includes(toLowerCase(invoice.paymentType),
                     <<"b", "a", "n", "k">>)
    THEN "BANK"
    ELSE "NONE"

\* the channel an invoice is dispatched to
Channel(invoice) ==
    IF includes(toLowerCase(invoice.paymentType),
                <<"b", "o", "o", "k", "i", "n", "g", ".", "c", "o", "m">>)
    THEN "BOOKING"
    ELSE IF isCardPayment(invoice.paymentType) THEN "NEXI"
    ELSE IF includes(toLowerCase(invoice.paymentType),
                     <<"b", "a", "n", "k">>)
    THEN "BANK"
    ELSE "NONE"

\* the body of "for (const invoice of invoices)" for one invoice
MatchInvoice(invoiceId, avB, avC, avK, st) ==
    LET invoice == invoices[invoiceId]
        ch == Channel(invoice)
        m == IF ch = "BOOKING"
             THEN matchBookingInMemory(invoiceId, invoice, avB,
                                       st.matchedBookingIds, 1)
             ELSE IF ch = "NEXI"
             THEN matchNexiInMemory(invoiceId, invoice, avC,
                                    st.matchedCardIds, 1)
             ELSE IF ch = "BANK"
             THEN matchBankInMemory(invoiceId, invoice, avK,
                                    st.matchedBankIds, 1)
             ELSE NoMatch
    IN  IF m = NoMatch THEN st
        ELSE [matchedBookingIds |->
                  st.matchedBookingIds \cup ({m.bookingPaymentId} \ {NoId}),
              matchedCardIds |->
                  st.matchedCardIds \cup ({m.cardPaymentId} \ {NoId}),
              matchedBankIds |->
                  st.matchedBankIds \cup ({m.bankTransactionId} \ {NoId}),
              matchesToCreate |-> Append(st.matchesToCreate, m),
              invoiceIdsToReconcile |->
                  Append(st.invoiceIdsToReconcile, invoiceId)]

\* a loop that visits the loaded invoices last to first
LoopOrderReversed(loaded) ==
    [k \in 1..Len(loaded) |-> loaded[Len(loaded) + 1 - k]]

\* the order in which the loop visits the loaded invoices
LoopOrder(loaded) == loaded

RECURSIVE MatchLoop(_, _, _, _, _, _)
MatchLoop(loaded, k, avB, avC, avK, st) ==
    IF k > Len(loaded) THEN st
    ELSE MatchLoop(loaded, k + 1, avB, avC, avK,
                   MatchInvoice(loaded[k], avB, avC, avK, st))

RunStart == [matchedBookingIds |-> {}, matchedCardIds |-> {},
             matchedBankIds |-> {}, matchesToCreate |-> << >>,
             invoiceIdsToReconcile |-> << >>]

\* createMany({ data: matchesToCreate }): one new row per element
RECURSIVE CreateMany(_, _, _)
CreateMany(table, data, k) ==
    IF k > Len(data) THEN table
    ELSE CreateMany(table (+) SetToBag({data[k]}), data, k + 1)

\* a write that flags every unreconciled invoice
FlagInvoicesLoaded(invs, ids, t) ==
    [i \in 1..Len(invs) |->
        IF ~invs[i].isReconciled
        THEN [invs[i] EXCEPT !.isReconciled = TRUE, !.reconciledDate = t]
        ELSE invs[i]]

\* invoice.update({ where: { id }, data: { isReconciled: true,
\* reconciledDate: new Date() } }) for every id of ids
FlagInvoices(invs, ids, t) ==
    [i \in 1..Len(invs) |->
        IF \E k \in 1..Len(ids) : ids[k] = i
        THEN [invs[i] EXCEPT !.isReconciled = TRUE, !.reconciledDate = t]
        ELSE invs[i]]

\* a write that is not one transaction: the match rows stay when it fails
\* before the invoice updates
WriteResultsUnbatched(failed, st) ==
    IF failed
    THEN [invoices |-> invoices,
          matches |-> CreateMany(matches, st.matchesToCreate, 1)]
    ELSE [invoices |-> FlagInvoices(invoices, st.invoiceIdsToReconcile, now),
          matches |-> CreateMany(matches, st.matchesToCreate, 1)]

\* prisma.$transaction([createMany, ...updates]): all of it or, when it
\* fails, none of it
WriteResults(failed, st) ==
    IF failed
    THEN [invoices |-> invoices, matches |-> matches]
    ELSE [invoices |-> FlagInvoices(invoices, st.invoiceIdsToReconcile, now),
          matches |-> CreateMany(matches, st.matchesToCreate, 1)]

RunFailures == {"none", "load", "write"}

\* the latest request was a runReconciliation that returned
IsGoodRun(r) == r.op = "reconcile" /\ r.ok

\* runReconciliation; failAt names the await that rejects, if one does;
\* traced says whether the call is recorded in last
runReconciliation(invOrder, bOrder, cOrder, kOrder, failAt, traced) ==
    LET avB == Available(bOrder,
                         [id \in LoadedBookings |-> MatchesOfBooking(id)])
        avC == Available(cOrder, [id \in LoadedCards |-> MatchesOfCard(id)])
        avK == Available(kOrder, [id \in LoadedBanks |-> MatchesOfBank(id)])
        st == MatchLoop(LoopOrder(invOrder), 1, avB, avC, avK, RunStart)
        n == Len(st.matchesToCreate)
        out == WriteResults(failAt = "write", st)
    IN  IF failAt = "load"
        THEN /\ last' = IF ~traced THEN NoRequest
                        ELSE [NoRequest EXCEPT !.op = "reconcile",
                                               !.ok = FALSE,
                                               !.rerun = IsGoodRun(last)]
             /\ UNCHANGED <<invoices, bookingPayments, cardPayments,
                            bankTransactions, matches, now>>
        ELSE /\ failAt = "write" => n > 0
             /\ invoices' = IF n > 0 THEN out.invoices ELSE invoices
             /\ matches' = IF n > 0 THEN out.matches ELSE matches
             /\ last' = IF ~traced THEN NoRequest ELSE
                        [NoRequest EXCEPT
                            !.op = "reconcile",
                            !.ok = failAt = "none",
                            !.rerun = IsGoodRun(last),
                            !.invoices = invOrder,
                            !.availableBookings = avB,
                            !.availableCards = avC,
                            !.availableBanks = avK,
                            !.matchesToCreate = st.matchesToCreate,
                            !.invoiceIdsToReconcile =
                                st.invoiceIdsToReconcile,
                            !.matches = IF failAt = "none"
                                        THEN Len(st.invoiceIdsToReconcile)
                                        ELSE 0]
             /\ UNCHANGED <<bookingPayments, cardPayments, bankTransactions,
                            now>>

\* POST /api/reconcile
Reconcile ==
    \E invOrder \in Orders(UnreconciledInvoices),
       bOrder \in Orders(LoadedBookings),
       cOrder \in Orders(LoadedCards),
       kOrder \in Orders(LoadedBanks),
       failAt \in RunFailures :
        /\ runReconciliation(invOrder, bOrder, cOrder, kOrder, failAt, TRUE)
        /\ UNCHANGED <<everLinked, importedFiles, inFlight>>

\* POST /api/reconcile, the call not recorded in last
ReconcileUntraced ==
    \E invOrder \in Orders(UnreconciledInvoices),
       bOrder \in Orders(LoadedBookings),
       cOrder \in Orders(LoadedCards),
       kOrder \in Orders(LoadedBanks),
       failAt \in RunFailures :
        /\ runReconciliation(invOrder, bOrder, cOrder, kOrder, failAt, FALSE)
        /\ UNCHANGED <<everLinked, importedFiles, inFlight>>

\* the links the match rows of a table state
LinksOf(table) ==
    {<<"BOOKING", m.bookingPaymentId, m.invoiceId>> :
        m \in {x \in BagToSet(table) : x.bookingPaymentId # NoId}}
    \cup {<<"NEXI", m.cardPaymentId, m.invoiceId>> :
        m \in {x \in BagToSet(table) : x.cardPaymentId # NoId}}
    \cup {<<"BANK", m.bankTransactionId, m.invoiceId>> :
        m \in {x \in BagToSet(table) : x.bankTransactionId # NoId}}

\* POST /api/reconcile, with the links it creates added to the history
ReconcileH ==
    \E invOrder \in Orders(UnreconciledInvoices),
       bOrder \in Orders(LoadedBookings),
       cOrder \in Orders(LoadedCards),
       kOrder \in Orders(LoadedBanks),
       failAt \in RunFailures :
        /\ runReconciliation(invOrder, bOrder, cOrder, kOrder, failAt, TRUE)
        /\ everLinked' = everLinked \cup LinksOf(matches')
        /\ UNCHANGED <<importedFiles, inFlight>>

\* ---------------------------------------------------------------- index.ts
VerifyFailures == {"none", "delete", "update"}

\* a deleteMany without its where clause
DeleteMatchesAll(invoiceId) == EmptyBag

\* an un-verify that leaves the match rows in place
DeleteMatchesNone(invoiceId) == matches

\* reconciliationMatch.deleteMany({ where: { invoiceId } })
DeleteMatchesOf(invoiceId) ==
    [m \in {x \in BagToSet(matches) : x.invoiceId # invoiceId} |-> matches[m]]

\* POST /api/invoices/:id/verify; failAt names the await that rejects
Verify(id, status, failAt) ==
    /\ failAt = "delete" => ~status
    /\ matches' = IF ~status /\ failAt # "delete"
                  THEN DeleteMatchesOf(id) ELSE matches
    /\ invoices' = IF failAt = "none" /\ id \in 1..Len(invoices)
                   THEN [invoices EXCEPT
                            ![id].manualStatus = status,
                            ![id].isReconciled = status,
                            ![id].reconciledDate =
                                IF status THEN now ELSE NullDate]
                   ELSE invoices
    /\ last' = NoRequest
    /\ UNCHANGED <<bookingPayments, cardPayments, bankTransactions,
                   now, everLinked, importedFiles, inFlight>>

SetManualStatus ==
    \E id \in 1..(Len(invoices) + 1), status \in BOOLEAN,
       failAt \in VerifyFailures : Verify(id, status, failAt)

Comments == {t66}

\* POST /api/invoices/:id/comment
Comment(id, comment) ==
    /\ invoices' = [invoices EXCEPT ![id].comment = comment]
    /\ last' = NoRequest
    /\ UNCHANGED <<bookingPayments, cardPayments, bankTransactions, matches,
                   now, everLinked, importedFiles, inFlight>>

UpdateComment ==
    \E id \in 1..Len(invoices), comment \in Comments : Comment(id, comment)

Next ==
    \/ ImportIbelsa
    \/ ImportBooking
    \/ ImportBank
    \/ ImportNexi
    \/ Reconcile
    \/ SetManualStatus

\* the uploads and the runs while the clock advances
NextClock ==
    \/ Tick
    \/ ImportIbelsa
    \/ ImportBooking
    \/ ImportBank
    \/ ImportNexi
    \/ Reconcile

\* the requests with the comment endpoint
NextImport ==
    \/ ImportIbelsa
    \/ ImportBooking
    \/ ImportBank
    \/ ImportNexi
    \/ ReconcileUntraced
    \/ SetManualStatus
    \/ UpdateComment

\* the online-payout channel with the history of its links
NextHist ==
    \/ ImportIbelsa
    \/ ImportBooking
    \/ ReconcileH
    \/ SetManualStatus

\* ------------------------------------------------------- POST /api/upload
\* the four tables the normalizers write
Store ==
    [invoices |-> invoices, bookingPayments |-> bookingPayments,
     cardPayments |-> cardPayments, bankTransactions |-> bankTransactions]

\* what the environment does to the calls made for one file:
\*   "store"   the write of the normalizer rejects
\*   "rename"  fs.renameSync throws
\*   "create"  importedFile.create rejects in the try block only
\*   "down"    importedFile.create rejects in the try and in the catch block
UploadFaults == {"none", "store", "rename", "create", "down"}

\* `${type}_${month}_${year}_${Date.now()}.csv`, kept as the values it is
\* formed of: the type, the date whose month and year it shows, the clock
NewFilename(result, t) == <<result.type, result.dateRangeStart, t>>

\* the row of importedFile.create in the try block
ImportedRow(filename, file, result, t) ==
    [filename |-> filename, originalName |-> file.originalName,
     type |-> result.type, importDate |-> t, recordCount |-> result.count,
     dateRangeStart |-> result.dateRangeStart,
     dateRangeEnd |-> result.dateRangeEnd, logs |-> result.logs]

\* the row of importedFile.create in the catch block
ErrorRow(file, e, t) ==
    [filename |-> file.originalName, originalName |-> file.originalName,
     type |-> "ERROR", importDate |-> t, recordCount |-> 0,
     dateRangeStart |-> NullDate, dateRangeEnd |-> NullDate,
     logs |-> <<<<"Error processing file", e>>>>]

\* results.push of the try block
ProcessedEntry(filename, file, result) ==
    [filename |-> filename, originalName |-> file.originalName,
     status |-> "processed", type |-> result.type, count |-> result.count]

\* results.push of the catch block
ErrorEntry(file, e) ==
    [filename |-> file.originalName, status |-> "error", error |-> e]

\* the body of the loop for one file whose processFile gave p; st.status:
\* "next" the loop goes on, "500" the outer catch, "none" no answer
UploadFile(file, fault, t, st, p) ==
    LET renamed == p.result.dateRangeStart # NullDate
        newFilename == IF renamed THEN NewFilename(p.result, t)
                       ELSE file.originalName
        caught(e) ==
            IF fault = "down"
            THEN [st EXCEPT !.store = p.store, !.status = "500"]
            ELSE [st EXCEPT
                     !.store = p.store,
                     !.imported = Append(@, ErrorRow(file, e, t)),
                     !.results = Append(@, ErrorEntry(file, e))]
    IN  IF p.outcome = "pending" THEN [st EXCEPT !.status = "none"]
        ELSE IF p.outcome = "rejected" THEN caught("parse")
        ELSE IF renamed /\ fault = "rename" THEN caught("rename")
        ELSE IF fault \in {"create", "down"} THEN caught("create")
        ELSE [st EXCEPT
                 !.store = p.store,
                 !.imported =
                     Append(@, ImportedRow(newFilename, file, p.result, t)),
                 !.results =
                     Append(@, ProcessedEntry(newFilename, file, p.result))]

\* for (const file of files) { try { ... } catch (e) { ... } }, from the
\* k-th file on, and res.json after the last file
RECURSIVE UploadLoop(_, _, _, _, _, _)
UploadLoop(files, faults, nanStored, t, k, st) ==
    IF st.status # "next" THEN st
    ELSE IF k > Len(files) THEN [st EXCEPT !.status = "200"]
    ELSE UploadLoop(files, faults, nanStored, t, k + 1,
             UploadFile(files[k], faults[k], t, st,
                 processFile(files[k], st.store, faults[k] = "store",
                     nanStored)))

OriginalNames(files) == [k \in DOMAIN files |-> files[k].originalName]

\* POST /api/upload with the files of the request, under the faults of the
\* environment, one for each file
Upload(files, faults, nanStored, bound) ==
    /\ Len(importedFiles) + Len(files) <= bound
    /\ \E st \in {IF Len(files) = 0
                   THEN [store |-> Store, imported |-> importedFiles,
                         results |-> << >>, status |-> "400"]
                   ELSE UploadLoop(files, faults, nanStored, now, 1,
                            [store |-> Store, imported |-> importedFiles,
                             results |-> << >>, status |-> "next"])} :
        /\ Len(st.store.cardPayments) <= MaxStored
        /\ Len(st.store.bankTransactions) <= MaxStored
        /\ invoices' = st.store.invoices
        /\ bookingPayments' = st.store.bookingPayments
        /\ cardPayments' = st.store.cardPayments
        /\ bankTransactions' = st.store.bankTransactions
        /\ importedFiles' = st.imported
        /\ inFlight' = inFlight
        /\ last' = [NoRequest EXCEPT
                       !.op = "upload",
                       !.files = OriginalNames(files),
                       !.faults = faults,
                       !.nanStored = nanStored,
                       !.status = st.status,
                       !.results = IF st.status = "200" THEN st.results
                                   ELSE << >>]
        /\ UNCHANGED <<matches, now, everLinked>>

\* the faults of a request: fault on its k-th file, none on the others
\* (k = 0: none at all)
FaultAt(files, k, fault) ==
    [i \in DOMAIN files |-> IF i = k THEN fault ELSE "none"]

\* requests of several files
Batches ==
    {<<fBooking, fBroken, fNexi>>, <<fBroken, fBank>>, <<fBank, fBroken>>,
     <<fBookingNoRef, fUnknown>>}

UploadNothing == Upload(<< >>, << >>, FALSE, MaxImported)

UploadBatch ==
    \E files \in Batches, k \in 0..MaxBatch, fault \in UploadFaults :
        /\ k <= Len(files)
        /\ (k = 0) = (fault = "none")
        /\ Upload(files, FaultAt(files, k, fault), FALSE, MaxImported)

NextUpload == UploadNothing \/ UploadBatch

\* the uploads of one file, the store failing or not under the normalizer
UploadOne ==
    \E file \in Files, fault \in {"none", "store"}, nanStored \in BOOLEAN :
        Upload(<<file>>, <<fault>>, nanStored, MaxRepeat)

NextFiles == UploadOne

\* the uploads of one card-settlement file, the client taking NaN or not
UploadCard ==
    \E file \in CardFiles, nanStored \in BOOLEAN :
        Upload(<<file>>, <<"none">>, nanStored, MaxRepeat)

NextCards == UploadCard

\* the uploads of one file under the faults after which the request is
\* answered with its results
AuditFaults == {"none", "store", "rename", "create"}

UploadOneFaulty ==
    \E file \in Files, fault \in AuditFaults :
        Upload(<<file>>, <<fault>>, FALSE, MaxRepeat)

NextAudit == UploadOneFaulty

\* --------------------------------------------- calls of the value parsers
\* the amount texts: the texts of digits, commas and dots up to
\* MaxAmountLen characters, and the amounts the specification names
AmountAlphabet == {"1", "5", ",", "."}

t1234German == <<"1", ".", "2", "3", "4", ",", "5", "6">>
t1234English == <<"1", ",", "2", "3", "4", ".", "5", "6">>
t82 == <<"8", "2", ".", "0", "0">>

AmountTexts ==
    UNION {[1..n -> AmountAlphabet] : n \in 0..MaxAmountLen}
        \cup {t1234German, t1234English, t82}

\* a call parseAmount(text)
ParseAmount ==
    \E text \in AmountTexts :
        /\ last = NoRequest
        /\ last' = [NoRequest EXCEPT !.op = "parseAmount", !.text = text,
                                     !.value = parseAmount(text)]
        /\ UNCHANGED <<invoices, bookingPayments, cardPayments,
                       bankTransactions, matches, now, everLinked,
                       importedFiles, inFlight>>

NextAmount == ParseAmount

\* the dates that are written and parsed: every day of the years Years
Years == {1999, 2000, 2024, 2025}

IsLeapYear(y) == (y % 4 = 0 /\ y % 100 # 0) \/ y % 400 = 0

DaysInMonth(m, y) ==
    IF m = 2 THEN (IF IsLeapYear(y) THEN 29 ELSE 28)
    ELSE IF m \in {4, 6, 9, 11} THEN 30 ELSE 31

\* the decimal digits of a natural number, and two of them at least
RECURSIVE ToText(_)
ToText(n) ==
    IF n < 10 THEN <<DigitChars[n + 1]>>
    ELSE ToText(n \div 10) \o <<DigitChars[(n % 10) + 1]>>

Pad2(n) == IF n < 10 THEN <<"0">> \o ToText(n) ELSE ToText(n)

\* the names of the months 1..12: German short and long, English short and
\* long
MonthNames ==
    <<{<<"J", "a", "n">>,
       <<"J", "a", "n", "u", "a", "r">>,
       <<"J", "a", "n", "u", "a", "r", "y">>},
      {<<"F", "e", "b">>,
       <<"F", "e", "b", "r", "u", "a", "r">>,
       <<"F", "e", "b", "r", "u", "a", "r", "y">>},
      {<<"M", "ä", "r">>,
       <<"M", "ä", "r", "z">>,
       <<"M", "a", "r">>,
       <<"M", "a", "r", "c", "h">>},
      {<<"A", "p", "r">>,
       <<"A", "p", "r", "i", "l">>},
      {<<"M", "a", "i">>,
       <<"M", "a", "y">>},
      {<<"J", "u", "n">>,
       <<"J", "u", "n", "i">>,
       <<"J", "u", "n", "e">>},
      {<<"J", "u", "l">>,
       <<"J", "u", "l", "i">>,
       <<"J", "u", "l", "y">>},
      {<<"A", "u", "g">>,
       <<"A", "u", "g", "u", "s", "t">>},
      {<<"S", "e", "p">>,
       <<"S", "e", "p", "t", "e", "m", "b", "e", "r">>,
       <<"S", "e", "p", "t">>},
      {<<"O", "k", "t">>,
       <<"O", "k", "t", "o", "b", "e", "r">>,
       <<"O", "c", "t">>,
       <<"O", "c", "t", "o", "b", "e", "r">>},
      {<<"N", "o", "v">>,
       <<"N", "o", "v", "e", "m", "b", "e", "r">>},
      {<<"D", "e", "z">>,
       <<"D", "e", "z", "e", "m", "b", "e", "r">>,
       <<"D", "e", "c">>,
       <<"D", "e", "c", "e", "m", "b", "e", "r">>}>>

\* the notations of the date (d, m, y): D.M.Y with and without leading
\* zeros and with a year of two digits, Y-M-D with and without leading
\* zeros, and "day month-name year" under every name of the month
Notations(d, m, y) ==
    {Pad2(d) \o <<".">> \o Pad2(m) \o <<".">> \o ToText(y),
     ToText(d) \o <<".">> \o ToText(m) \o <<".">> \o ToText(y),
     ToText(y) \o <<"-">> \o Pad2(m) \o <<"-">> \o Pad2(d),
     ToText(y) \o <<"-">> \o ToText(m) \o <<"-">> \o ToText(d)}
    \cup (IF y \in 2000..2099
          THEN {Pad2(d) \o <<".">> \o Pad2(m) \o <<".">> \o Pad2(y - 2000)}
          ELSE {})
    \cup {ToText(d) \o <<" ">> \o name \o <<" ">> \o ToText(y) :
             name \in MonthNames[m]}

\* a call parseDate(text) on a notation of a date
ParseDate ==
    \E y \in Years, m \in 1..12, d \in 1..31, zone \in Zones :
        /\ last = NoRequest
        /\ d <= DaysInMonth(m, y)
        /\ \E text \in Notations(d, m, y) :
               last' = [NoRequest EXCEPT !.op = "parseDate",
                                         !.date = <<d, m, y>>,
                                         !.text = text,
                                         !.zone = zone,
                                         !.value =
                                             parseDateIn(zone, text,
                                                         parseDate(text))]
        /\ UNCHANGED <<invoices, bookingPayments, cardPayments,
                       bankTransactions, matches, now, everLinked,
                       importedFiles, inFlight>>

NextDate == ParseDate

\* ------------------------------------------------- the rules of the channels
\* PMS-invoice rows whose payment type names two channels or none
iBV  == [date |-> Day(20254), type |-> tBookingVisa, number |-> tR1,
         recipient |-> tNeu, amount |-> 8200]
iVB  == [date |-> Day(20148), type |-> tVisaBank, number |-> tR188,
         recipient |-> tNeu, amount |-> 8200]
iBar == [date |-> Day(20254), type |-> tBar, number |-> tR2,
         recipient |-> tLi66, amount |-> 8200]

RuleIbelsaFiles == {<<iBV>>, <<iVB>>, <<iBar>>, <<iR2>>, <<iR188>>, <<iR3>>}

\* an online payout two cents above the invoices
b66c == [ref |-> t66, checkIn |-> Day(20249), checkOut |-> Day(20250),
         amount |-> 8202, payout |-> Day(20251)]

RuleBookingFiles == {<<b66>>, <<b66c>>, <<b77>>}

\* a bank transaction whose description names no invoice
kName == [date |-> Day(20167), name |-> tNEUAG, desc |-> tMiete,
          amount |-> 8200]

RuleBankFiles == {<<kNeu>>, <<kName>>}

\* a card settlement five days and one hour after the invoices
cLate == [type |-> tVisa, date |-> Day(20259) + 1, amount |-> 8200,
          gross |-> 8200]

RuleNexiFiles == {<<cVisa>>, <<cLate>>}

ImportIbelsaRule  == \E file \in RuleIbelsaFiles : parseIbelsa(file)
ImportBookingRule == \E file \in RuleBookingFiles : parseBooking(file)
ImportBankRule    == \E file \in RuleBankFiles : parseBank(file)
ImportNexiRule    == \E file \in RuleNexiFiles : parseNexi(file)

\* uploads of these files and runs
NextRules ==
    \/ ImportIbelsaRule
    \/ ImportBookingRule
    \/ ImportBankRule
    \/ ImportNexiRule
    \/ Reconcile

\* --------------------------------------------------- the order of matching
\* the invoice "Rechnung 18800 / 2025" of 1 March 2025 over 150.00, paid by
\* bank transfer, and the transfer "Zahlung Rechnung 18800" of 20 March 2025
tBankueberweisung == <<"B", "a", "n", "k", "ü", "b", "e", "r", "w", "e", "i",
                       "s", "u", "n", "g">>
tRechnung18800 == <<"R", "e", "c", "h", "n", "u", "n", "g", " ", "1", "8",
                    "8", "0", "0", " ", "/", " ", "2", "0", "2", "5">>
tZahlung18800 == <<"Z", "a", "h", "l", "u", "n", "g", " ", "R", "e", "c", "h",
                   "n", "u", "n", "g", " ", "1", "8", "8", "0", "0">>

i18800 == [date |-> Day(20148), type |-> tBankueberweisung,
           number |-> tRechnung18800, recipient |-> tLi66, amount |-> 15000]
k18800 == [date |-> Day(20167), name |-> tNEUAG, desc |-> tZahlung18800,
           amount |-> 15000]

\* an online payout one cent above the invoices, in their date window
b77cent == [ref |-> t77, checkIn |-> Day(20249), checkOut |-> Day(20250),
            amount |-> 8201, payout |-> Day(20251)]

FitIbelsaFiles == {<<iR1>>, <<iR2>>, <<iR3>>, <<i18800>>}
FitBookingFiles == {<<b66>>, <<b77>>, <<b77cent>>}
FitBankFiles == {<<k18800>>}
FitNexiFiles == {<<cVisa>>}

ImportIbelsaFit  == \E file \in FitIbelsaFiles : parseIbelsa(file)
ImportBookingFit == \E file \in FitBookingFiles : parseBooking(file)
ImportBankFit    == \E file \in FitBankFiles : parseBank(file)
ImportNexiFit    == \E file \in FitNexiFiles : parseNexi(file)

\* uploads of these files and runs
NextFit ==
    \/ ImportIbelsaFit
    \/ ImportBookingFit
    \/ ImportBankFit
    \/ ImportNexiFit
    \/ Reconcile

\* ------------------------------------------------------------ the lookback
\* nine months before Now0, the 8th of November 2025, is the 8th of February
\* 2025, Day(20127); a day later it is Day(20128)
bOld66 == [ref |-> t66, checkIn |-> Day(20127), checkOut |-> Day(20128),
           amount |-> 8200, payout |-> Day(20251)]
bOlder66 == [ref |-> t66, checkIn |-> Day(20100), checkOut |-> Day(20101),
             amount |-> 8200, payout |-> Day(20251)]
cOld == [type |-> tVisa, date |-> Day(20127), amount |-> 8200,
         gross |-> 8200]
kOld == [date |-> Day(20127), name |-> tNEUAG, desc |-> tRe188,
         amount |-> 8200]
iOldVisa == [date |-> Day(20128), type |-> tVisa, number |-> tR3,
             recipient |-> tNeu, amount |-> 8200]

LookbackIbelsaFiles == {<<iR2>>, <<iOldVisa>>, <<iR188>>}
LookbackBookingFiles == {<<b66>>, <<bOld66>>, <<bOlder66>>}
LookbackBankFiles == {<<kNeu>>, <<kOld>>}
LookbackNexiFiles == {<<cVisa>>, <<cOld>>}

ImportIbelsaLookback  == \E file \in LookbackIbelsaFiles : parseIbelsa(file)
ImportBookingLookback == \E file \in LookbackBookingFiles : parseBooking(file)
ImportBankLookback    == \E file \in LookbackBankFiles : parseBank(file)
ImportNexiLookback    == \E file \in LookbackNexiFiles : parseNexi(file)

\* uploads of these files and runs while the clock advances
NextLookback ==
    \/ Tick
    \/ ImportIbelsaLookback
    \/ ImportBookingLookback
    \/ ImportBankLookback
    \/ ImportNexiLookback
    \/ Reconcile

\* --------------------------------------------------------------- re-import
\* the payout 66 exported again without its dates, 1.00 lower
b66n == [ref |-> t66, checkIn |-> NullDate, checkOut |-> NullDate,
         amount |-> 8100, payout |-> NullDate]

\* the payout 66 exported again with later dates and two cents more
b66late == [ref |-> t66, checkIn |-> Day(20252), checkOut |-> Day(20253),
            amount |-> 8202, payout |-> Day(20256)]

ReimportIbelsaFiles == {<<iR1>>, <<iR2>>}
ReimportBookingFiles == {<<b66>>, <<b66n>>, <<b66late>>, <<b77>>}

ImportIbelsaReimport  == \E file \in ReimportIbelsaFiles : parseIbelsa(file)
ImportBookingReimport == \E file \in ReimportBookingFiles : parseBooking(file)

\* uploads of these files and runs
NextReimport ==
    \/ ImportIbelsaReimport
    \/ ImportBookingReimport
    \/ Reconcile

\* ------------------------------------------- payouts without a check-in date
\* the payout 66 from a file whose check-in and check-out dates do not parse
b66x == [ref |-> t66, checkIn |-> NullDate, checkOut |-> NullDate,
         amount |-> 8200, payout |-> Day(20251)]

\* an invoice to "Li 66" dated 31 July 2025, outside the window of payout 66
iR2far == [date |-> Day(20300), type |-> tBookingCom, number |-> tR2,
           recipient |-> tLi66, amount |-> 8200]

CandidateIbelsaFiles == {<<iR2far>>, <<iR1>>}
CandidateBookingFiles == {<<b66>>, <<b66x>>, <<bOlder66>>, <<b77>>}

ImportIbelsaCandidate ==
    \E file \in CandidateIbelsaFiles : parseIbelsa(file)
ImportBookingCandidate ==
    \E file \in CandidateBookingFiles : parseBooking(file)

\* uploads of these files and runs
NextCandidate ==
    \/ ImportIbelsaCandidate
    \/ ImportBookingCandidate
    \/ Reconcile

\* ------------------------------------------------------ overlapping requests
\* runReconciliation up to the await of its transaction: the four findMany
\* are answered and the matches are decided in memory
ReconcileLoad ==
    /\ Len(inFlight) < MaxInFlight
    /\ \E invOrder \in Orders(UnreconciledInvoices),
          bOrder \in Orders(LoadedBookings),
          cOrder \in Orders(LoadedCards),
          kOrder \in Orders(LoadedBanks) :
           LET avB == Available(bOrder,
                          [id \in LoadedBookings |-> MatchesOfBooking(id)])
               avC == Available(cOrder,
                          [id \in LoadedCards |-> MatchesOfCard(id)])
               avK == Available(kOrder,
                          [id \in LoadedBanks |-> MatchesOfBank(id)])
               st == MatchLoop(LoopOrder(invOrder), 1, avB, avC, avK,
                               RunStart)
           IN  inFlight' = Append(inFlight, st)
    /\ last' = NoRequest
    /\ UNCHANGED <<invoices, bookingPayments, cardPayments, bankTransactions,
                   matches, now, everLinked, importedFiles>>

\* an invocation in flight goes on: its transaction is committed when it
\* has decided a match, and it returns
ReconcileWrite ==
    \E k \in 1..Len(inFlight) :
        LET st == inFlight[k]
            out == WriteResults(FALSE, st)
        IN  /\ invoices' = IF Len(st.matchesToCreate) > 0
                           THEN out.invoices ELSE invoices
            /\ matches' = IF Len(st.matchesToCreate) > 0
                          THEN out.matches ELSE matches
            /\ inFlight' = SubSeq(inFlight, 1, k - 1)
                               \o SubSeq(inFlight, k + 1, Len(inFlight))
            /\ last' = NoRequest
            /\ UNCHANGED <<bookingPayments, cardPayments, bankTransactions,
                           now, everLinked, importedFiles>>

\* uploads, set-manual-status calls and runs that overlap
NextOverlap ==
    \/ ImportIbelsa
    \/ ImportBooking
    \/ ReconcileLoad
    \/ ReconcileWrite
    \/ SetManualStatus

\* ------------------------------------------------------------- properties
Range(seq) == {seq[k] : k \in 1..Len(seq)}

\* the number of ReconciliationMatch rows that satisfy P
RowsWhere(P(_)) ==
    BagCardinality([m \in {x \in BagToSet(matches) : P(x)} |-> matches[m]])

BookingIds == 1..Len(bookingPayments)
CardIds    == 1..Len(cardPayments)
BankIds    == 1..Len(bankTransactions)
InvoiceIds == 1..Len(invoices)

\* the invoice is dispatched to the channel and satisfies its rule with the
\* payment
Eligible(i, ch, p) ==
    /\ Channel(invoices[i]) = ch
    /\ CASE ch = "BOOKING" -> BookingRule(invoices[i], bookingPayments[p])
         [] ch = "NEXI"    -> NexiRule(invoices[i], cardPayments[p])
         [] ch = "BANK"    -> BankRule(invoices[i], bankTransactions[p])

Channels == {"BOOKING", "NEXI", "BANK"}

\* the candidates of a channel in the latest run, and the payment of a match
AvailableIn(r, ch) ==
    CASE ch = "BOOKING" -> r.availableBookings
      [] ch = "NEXI"    -> r.availableCards
      [] ch = "BANK"    -> r.availableBanks

PaymentOf(m, ch) ==
    CASE ch = "BOOKING" -> m.bookingPaymentId
      [] ch = "NEXI"    -> m.cardPaymentId
      [] ch = "BANK"    -> m.bankTransactionId

\* the run of the latest request decided to match invoice i with payment p
Assigned(r, i, ch, p) ==
    \E k \in 1..Len(r.matchesToCreate) :
        /\ r.matchesToCreate[k].invoiceId = i
        /\ PaymentOf(r.matchesToCreate[k], ch) = p

\* C1: among the match records one runReconciliation produces, every
\* bookingPaymentId, every cardPaymentId and every bankTransactionId occurs
\* at most once.
C1_NoPaymentTwiceInOneRun ==
    last.op = "reconcile" =>
        \A j, k \in 1..Len(last.matchesToCreate) :
            j # k =>
                \A ch \in Channels :
                    \/ PaymentOf(last.matchesToCreate[j], ch) = NoId
                    \/ PaymentOf(last.matchesToCreate[j], ch)
                           # PaymentOf(last.matchesToCreate[k], ch)

\* a run has matched two invoices with two payments, each invoice eligible
\* for either payment
C1_Witness ==
    /\ IsGoodRun(last)
    /\ \E j, k \in 1..Len(last.matchesToCreate) :
        LET a == last.matchesToCreate[j]
            b == last.matchesToCreate[k]
        IN  /\ j # k
            /\ a.bookingPaymentId # NoId
            /\ b.bookingPaymentId # NoId
            /\ Eligible(a.invoiceId, "BOOKING", b.bookingPaymentId)
            /\ Eligible(b.invoiceId, "BOOKING", a.bookingPaymentId)

\* C2: every payment record is referenced by at most one
\* ReconciliationMatch row; a run never adds a second row for a payment that
\* has one from an earlier run.
C2_PaymentHasAtMostOneMatch ==
    /\ \A p \in BookingIds : RowsWhere(LAMBDA m : m.bookingPaymentId = p) <= 1
    /\ \A p \in CardIds : RowsWhere(LAMBDA m : m.cardPaymentId = p) <= 1
    /\ \A p \in BankIds : RowsWhere(LAMBDA m : m.bankTransactionId = p) <= 1

\* a run has loaded an invoice that satisfies the rule with a payment matched
\* by an earlier run, and has left that payment alone
C2_Witness ==
    /\ IsGoodRun(last)
    /\ \E i \in Range(last.invoices), ch \in Channels :
        \E p \in 1..Len(CASE ch = "BOOKING" -> bookingPayments
                          [] ch = "NEXI" -> cardPayments
                          [] ch = "BANK" -> bankTransactions) :
            /\ Eligible(i, ch, p)
            /\ ~Assigned(last, i, ch, p)
            /\ \E m \in BagToSet(matches) :
                /\ PaymentOf(m, ch) = p
                /\ m.invoiceId \notin Range(last.invoices)

\* a step of runReconciliation: the latest request becomes a reconciliation
\* while the clock stands
RunStep == last'.op = "reconcile" /\ now' = now

\* C3: a runReconciliation that throws leaves the match rows and every
\* invoice as they were; one that returns has created all its match rows and
\* flagged all its invoices.
C3_RunAllOrNothing ==
    [][RunStep =>
        IF last'.ok
        THEN /\ BagCardinality(matches') =
                    BagCardinality(matches) + Len(last'.matchesToCreate)
             /\ \A k \in 1..Len(last'.matchesToCreate) :
                    /\ CopiesIn(last'.matchesToCreate[k], matches') =
                           CopiesIn(last'.matchesToCreate[k], matches) + 1
                    /\ last'.matchesToCreate[k].invoiceId
                           \in Range(last'.invoiceIdsToReconcile)
             /\ \A i \in Range(last'.invoiceIdsToReconcile) :
                    /\ invoices'[i].isReconciled
                    /\ invoices'[i].reconciledDate = now
        ELSE /\ matches' = matches
             /\ invoices' = invoices]_vars

\* a run has thrown inside its final write, with matches decided for invoices
\* that are still unreconciled
C3_Witness ==
    /\ last.op = "reconcile"
    /\ ~last.ok
    /\ Len(last.matchesToCreate) > 0
    /\ \A i \in Range(last.invoiceIdsToReconcile) : ~invoices[i].isReconciled

C5_FirstInLoadOrderWins ==
    last.op = "reconcile" =>
        \A ch \in Channels :
            \A p \in Range(AvailableIn(last, ch)) :
                \A a, b \in 1..Len(last.invoices) :
                    LET i == last.invoices[a]
                        j == last.invoices[b]
                        Only(x) == \A q \in Range(AvailableIn(last, ch)) :
                                       Eligible(x, ch, q) => q = p
                    IN  (/\ a < b
                         /\ Eligible(i, ch, p) /\ Only(i)
                         /\ Eligible(j, ch, p) /\ Only(j)
                         /\ \A c \in 1..(a - 1) :
                                ~Eligible(last.invoices[c], ch, p))
                        => /\ Assigned(last, i, ch, p)
                           /\ j \notin Range(last.invoiceIdsToReconcile)
                           /\ last.ok =>
                                /\ ~invoices[j].isReconciled
                                /\ RowsWhere(LAMBDA m : m.invoiceId = j) = 0
                                /\ invoices[i].isReconciled

\* a run has given the only candidate of two loaded invoices to the first
C5_Witness ==
    /\ IsGoodRun(last)
    /\ \E ch \in Channels :
        \E p \in Range(AvailableIn(last, ch)) :
            \E a, b \in 1..Len(last.invoices) :
                /\ a < b
                /\ Eligible(last.invoices[a], ch, p)
                /\ Eligible(last.invoices[b], ch, p)
                /\ \A q \in Range(AvailableIn(last, ch)) :
                       (\/ Eligible(last.invoices[a], ch, q)
                        \/ Eligible(last.invoices[b], ch, q)) => q = p
                /\ Assigned(last, last.invoices[a], ch, p)

\* C6: every invoice has at most one ReconciliationMatch row.
C6_InvoiceHasAtMostOneMatch ==
    \A i \in InvoiceIds : RowsWhere(LAMBDA m : m.invoiceId = i) <= 1

\* a run has matched an invoice although a second candidate it is eligible
\* for was available
C6_Witness ==
    /\ IsGoodRun(last)
    /\ \E i \in Range(last.invoiceIdsToReconcile) :
        /\ RowsWhere(LAMBDA m : m.invoiceId = i) = 1
        /\ \E p, q \in Range(last.availableBookings) :
            /\ p # q
            /\ Eligible(i, "BOOKING", p)
            /\ Eligible(i, "BOOKING", q)

\* the payments of a channel
PaymentIds(ch) ==
    CASE ch = "BOOKING" -> BookingIds
      [] ch = "NEXI"    -> CardIds
      [] ch = "BANK"    -> BankIds

\* C7, as claimed: a payment that has been linked to an invoice is never
\* linked to a different invoice afterwards.
C7_NeverLinkedToAnotherInvoice ==
    \A l1, l2 \in everLinked :
        (l1[1] = l2[1] /\ l1[2] = l2[2]) => l1[3] = l2[3]

\* C7, amended: a payment that has a match keeps exactly that match, to the
\* same invoice, through every request, or loses it, and it loses it only in
\* a set-manual-status false request for the invoice of the match.
C7_LinkedUntilUnverified ==
    [][\A ch \in Channels :
        \A m \in BagToSet(matches) :
            PaymentOf(m, ch) # NoId =>
                \/ /\ RowsWhere(LAMBDA x : PaymentOf(x, ch) = PaymentOf(m, ch))'
                          = 1
                   /\ CopiesIn(m, matches') = 1
                \/ /\ RowsWhere(LAMBDA x : PaymentOf(x, ch) = PaymentOf(m, ch))'
                          = 0
                   /\ \E failAt \in VerifyFailures :
                          Verify(m.invoiceId, FALSE, failAt)]_vars

\* a payment once linked to one invoice is now linked, by its only match, to
\* another, and the first invoice has no match
C7_Witness ==
    \E l \in everLinked :
        \E m \in BagToSet(matches) :
            /\ PaymentOf(m, l[1]) = l[2]
            /\ m.invoiceId # l[3]
            /\ RowsWhere(LAMBDA x : PaymentOf(x, l[1]) = l[2]) = 1
            /\ RowsWhere(LAMBDA x : x.invoiceId = l[3]) = 0

\* C8: set-manual-status false on an invoice removes every match row of that
\* invoice, leaves it with manualStatus false, isReconciled false and
\* reconciledDate null, among the invoices the next run loads, and leaves the
\* match rows of the other invoices as they were.
C8_UnverifyClearsInvoice ==
    [][\A id \in InvoiceIds :
        Verify(id, FALSE, "none") =>
            /\ RowsWhere(LAMBDA m : m.invoiceId = id)' = 0
            /\ ~invoices'[id].manualStatus
            /\ ~invoices'[id].isReconciled
            /\ invoices'[id].reconciledDate = NullDate
            /\ id \in UnreconciledInvoices'
            /\ \A m \in BagToSet(matches) :
                   m.invoiceId # id =>
                       CopiesIn(m, matches') = CopiesIn(m, matches)]_vars

\* an invoice that had a match is unreconciled without one, and another
\* invoice still has its match
C8_Witness ==
    \E l \in everLinked :
        /\ RowsWhere(LAMBDA m : m.invoiceId = l[3]) = 0
        /\ ~invoices[l[3]].isReconciled
        /\ ~invoices[l[3]].manualStatus
        /\ invoices[l[3]].reconciledDate = NullDate
        /\ \E m \in BagToSet(matches) : m.invoiceId # l[3]

\* C9: runReconciliation leaves every payment table as it was, adds and
\* removes no invoice, changes of the invoices it matched only isReconciled
\* and reconciledDate, and changes no other invoice.
C9_RunFrame ==
    [][RunStep =>
        /\ bookingPayments' = bookingPayments
        /\ cardPayments' = cardPayments
        /\ bankTransactions' = bankTransactions
        /\ Len(invoices') = Len(invoices)
        /\ \A i \in InvoiceIds :
            IF i \in Range(last'.invoiceIdsToReconcile)
            THEN [invoices'[i] EXCEPT
                     !.isReconciled = invoices[i].isReconciled,
                     !.reconciledDate = invoices[i].reconciledDate]
                 = invoices[i]
            ELSE invoices'[i] = invoices[i]]_vars

\* a run has matched one loaded invoice and left another unmatched, with a
\* payment stored
C9_Witness ==
    /\ IsGoodRun(last)
    /\ Len(last.invoiceIdsToReconcile) > 0
    /\ Range(last.invoices) \ Range(last.invoiceIdsToReconcile) # {}
    /\ Len(bookingPayments) + Len(cardPayments) + Len(bankTransactions) > 1

\* a step of a normalizer: a PMS-invoice upload, or a step that adds an
\* invoice or changes a payment table, which no other request does
UploadStep ==
    \/ last'.op = "upload"
    \/ Len(invoices') > Len(invoices)
    \/ bookingPayments' # bookingPayments
    \/ cardPayments' # cardPayments
    \/ bankTransactions' # bankTransactions

\* C10: no normalizer changes a stored invoice (neither isReconciled,
\* reconciledDate, manualStatus nor comment of an invoice whose number the
\* file contains) and none creates, deletes or changes a match row.
C10_ImportKeepsReconciliationState ==
    [][UploadStep =>
        /\ matches' = matches
        /\ Len(invoices') >= Len(invoices)
        /\ \A i \in InvoiceIds :
            /\ invoices'[i].isReconciled = invoices[i].isReconciled
            /\ invoices'[i].reconciledDate = invoices[i].reconciledDate
            /\ invoices'[i].manualStatus = invoices[i].manualStatus
            /\ invoices'[i].comment = invoices[i].comment]_vars

\* a PMS-invoice file has been processed whose counted rows all name stored
\* invoices: every stored invoice is reconciled, one is manually verified,
\* one has a comment and one has a match
C10_Witness ==
    /\ last.op = "upload"
    /\ last.count >= 1
    /\ Len(invoices) >= 1
    /\ \A i \in InvoiceIds :
        invoices[i].isReconciled /\ invoices[i].reconciledDate # NullDate
    /\ \E i \in InvoiceIds : invoices[i].manualStatus
    /\ \E i \in InvoiceIds : invoices[i].comment # NullText
    /\ matches # EmptyBag

\* the words of isCardPayment
CardWords ==
    {<<"e", "c", "-", "k", "a", "r", "t", "e">>,
     <<"v", "i", "s", "a">>,
     <<"m", "a", "s", "t", "e", "r", "c", "a", "r", "d">>,
     <<"m", "a", "e", "s", "t", "r", "o">>,
     <<"v", "i", "s", "a", " ", "e", "l", "e", "c", "t", "r", "o", "n">>}

\* the channel the fixed order of tests gives a payment type
DispatchOf(type) ==
    LET t == toLowerCase(type) IN
    IF includes(t, toLowerCase(tBookingCom)) THEN "BOOKING"
    ELSE IF \E w \in CardWords : includes(t, w) THEN "NEXI"
    ELSE IF includes(t, toLowerCase(tBank)) THEN "BANK"
    ELSE "NONE"

\* the match names a payment of channel ch and of no other channel
OnlyChannel(m, ch) ==
    /\ ch \in Channels
    /\ \A c \in Channels : (PaymentOf(m, c) # NoId) <=> (c = ch)

\* C11: every invoice is dispatched to the one channel the fixed order of
\* tests on its paymentType gives (booking.com, then a card word, then bank,
\* else none); every match, stored or decided by the latest run, names a
\* payment of the channel of its invoice and of no other; an invoice of no
\* channel is never matched and never reconciled by a run.
C11_DispatchByPaymentType ==
    /\ \A i \in InvoiceIds :
        /\ Channel(invoices[i]) = DispatchOf(invoices[i].paymentType)
        /\ Channel(invoices[i]) = "NONE" =>
               /\ RowsWhere(LAMBDA m : m.invoiceId = i) = 0
               /\ ~invoices[i].isReconciled
    /\ \A m \in BagToSet(matches) :
        OnlyChannel(m, DispatchOf(invoices[m.invoiceId].paymentType))
    /\ last.op = "reconcile" =>
        \A k \in 1..Len(last.matchesToCreate) :
            LET m == last.matchesToCreate[k] IN
            /\ OnlyChannel(m, DispatchOf(invoices[m.invoiceId].paymentType))
            /\ m.invoiceId \in Range(last.invoices)

\* a run has loaded an invoice of no channel that satisfies the online-payout
\* rule with a candidate and has left it unmatched, and has matched an invoice
\* whose type names booking.com and a card word with an online payout while
\* a card settlement that satisfies the card rule was a candidate
C11_Witness ==
    /\ IsGoodRun(last)
    /\ \E i \in Range(last.invoices) :
        /\ Channel(invoices[i]) = "NONE"
        /\ \E p \in Range(last.availableBookings) :
               BookingRule(invoices[i], bookingPayments[p])
        /\ i \notin Range(last.invoiceIdsToReconcile)
    /\ \E k \in 1..Len(last.matchesToCreate) :
        LET m == last.matchesToCreate[k] IN
        /\ invoices[m.invoiceId].paymentType = tBookingVisa
        /\ m.bookingPaymentId # NoId
        /\ \E c \in Range(last.availableCards) :
               NexiRule(invoices[m.invoiceId], cardPayments[c])

\* the difference of two dates in days, rounded to the nearest whole day
DaysBetween(d1, d2) == Abs(RoundDiv(d1 - d2, oneDay))

\* the reference number of the payout is contained in the recipient or the
\* comment of the invoice
RefContained(inv, pay) ==
    \/ includes(inv.recipient, pay.referenceNumber)
    \/ includes(inv.comment, pay.referenceNumber)

\* one name contains the other, letter case ignored
NameContained(inv, pay) ==
    \/ includes(toLowerCase(pay.senderReceiver), toLowerCase(inv.recipient))
    \/ includes(toLowerCase(inv.recipient), toLowerCase(pay.senderReceiver))

\* the first digit run of the invoice number is contained in the description
DigitsContained(inv, pay) ==
    /\ extractInvoiceNumber(inv.invoiceNumber) # NullText
    /\ includes(pay.description, extractInvoiceNumber(inv.invoiceNumber))

\* the match satisfies the rule of its channel
SatisfiesRule(m) ==
    LET inv == invoices[m.invoiceId] IN
    CASE m.bookingPaymentId # NoId ->
            LET pay == bookingPayments[m.bookingPaymentId] IN
            /\ Abs(pay.amount - inv.amount) <= AMOUNT_TOLERANCE
            /\ \/ /\ inv.invoiceDate >=
                         pay.checkInDate - BOOKING_DATE_TOLERANCE * oneDay
                  /\ inv.invoiceDate <=
                         pay.payoutDate + BOOKING_DATE_TOLERANCE * oneDay
               \/ RefContained(inv, pay)
      [] m.cardPaymentId # NoId ->
            LET pay == cardPayments[m.cardPaymentId] IN
            /\ Abs(pay.amount - inv.amount) <= AMOUNT_TOLERANCE
            /\ DaysBetween(inv.invoiceDate, pay.transactionDate)
                   <= DATE_TOLERANCE_DAYS
      [] m.bankTransactionId # NoId ->
            LET pay == bankTransactions[m.bankTransactionId] IN
            /\ Abs(pay.amount - inv.amount) <= AMOUNT_TOLERANCE
            /\ DaysBetween(inv.invoiceDate, pay.bookingDate)
                   <= BANK_DATE_TOLERANCE_DAYS
            /\ NameContained(inv, pay) \/ DigitsContained(inv, pay)
      [] OTHER -> FALSE

\* C12: every match a run decides satisfies the rule of its channel with
\* the invoice and the payment as they are when it is created: amounts at
\* most 0.01 apart, and the date window or the reference (online payout),
\* at most 5 days (card), at most 60 days and a name or invoice-number hit
\* (bank).
C12_MatchSatisfiesRule ==
    last.op = "reconcile" =>
        \A k \in 1..Len(last.matchesToCreate) :
            SatisfiesRule(last.matchesToCreate[k])

\* a run has created a match and has left unmatched an invoice whose only
\* candidate, two cents above it, names it and lies in its date window
C12_Witness ==
    /\ IsGoodRun(last)
    /\ Len(last.matchesToCreate) > 0
    /\ \E i \in Range(last.invoices) :
        /\ Channel(invoices[i]) = "BOOKING"
        /\ i \notin Range(last.invoiceIdsToReconcile)
        /\ \E p \in Range(last.availableBookings) :
            /\ Abs(bookingPayments[p].amount - invoices[i].amount) = 2
            /\ BookingDateMatch(invoices[i], bookingPayments[p])
            /\ RefContained(invoices[i], bookingPayments[p])

\* C13: matchType and confidence of a match a run decides follow from how
\* it matched: online payout MANUAL_REF 1.0 when the reference is contained
\* in recipient or comment, else AUTOMATIC 0.85; bank MANUAL_REF 1.0 when
\* the invoice digits are contained in the description, else AUTOMATIC 0.8;
\* card AUTOMATIC 0.9; a stored match is MANUAL_REF exactly when its
\* confidence is 1.0.
C13_TypeAndConfidence ==
    /\ last.op = "reconcile" =>
        \A k \in 1..Len(last.matchesToCreate) :
            LET m == last.matchesToCreate[k]
                inv == invoices[m.invoiceId]
                how == <<m.matchType, m.confidence>>
            IN  CASE m.bookingPaymentId # NoId ->
                        how = IF RefContained(inv,
                                     bookingPayments[m.bookingPaymentId])
                              THEN <<"MANUAL_REF", 100>>
                              ELSE <<"AUTOMATIC", 85>>
                  [] m.cardPaymentId # NoId -> how = <<"AUTOMATIC", 90>>
                  [] m.bankTransactionId # NoId ->
                        how = IF DigitsContained(inv,
                                     bankTransactions[m.bankTransactionId])
                              THEN <<"MANUAL_REF", 100>>
                              ELSE <<"AUTOMATIC", 80>>
                  [] OTHER -> FALSE
    /\ \A m \in BagToSet(matches) :
        (m.matchType = "MANUAL_REF") <=> (m.confidence = 100)

\* one run has matched a bank invoice by name only, and another invoice by
\* the reference or the digits
C13_Witness ==
    /\ IsGoodRun(last)
    /\ \E j, k \in 1..Len(last.matchesToCreate) :
        /\ last.matchesToCreate[j].bankTransactionId # NoId
        /\ last.matchesToCreate[j].matchType = "AUTOMATIC"
        /\ last.matchesToCreate[j].confidence = 80
        /\ last.matchesToCreate[k].matchType = "MANUAL_REF"

\* the file of a request, by the name it was uploaded under
FileNamed(name) == CHOOSE f \in Files : f.originalName = name

FilesOf(r) == [k \in DOMAIN r.files |-> FileNamed(r.files[k])]

EmptyStore ==
    [invoices |-> << >>, bookingPayments |-> << >>, cardPayments |-> << >>,
     bankTransactions |-> << >>]

\* the try block of the handler throws for the file: processFile rejects,
\* or renameSync or importedFile.create throws after it
Throws(file, fault, nanStored) ==
    LET p == processFile(file, EmptyStore, fault = "store", nanStored) IN
    \/ p.outcome = "rejected"
    \/ /\ p.outcome = "resolved"
       /\ \/ fault \in {"create", "down"}
          \/ fault = "rename" /\ p.result.dateRangeStart # NullDate

\* the store after the normalizers of the files from the k-th on, one after
\* the other
RECURSIVE StoreAfter(_, _, _, _, _)
StoreAfter(files, faults, nanStored, k, store) ==
    IF k > Len(files) THEN store
    ELSE StoreAfter(files, faults, nanStored, k + 1,
             processFile(files[k], store, faults[k] = "store",
                 nanStored).store)

\* C14: in an upload of several files in which the processing of a file
\* throws (and the environment fails no other file), the records of the
\* files before it stay persisted, the failing file is reported with status
\* 'error', every later file is processed, and the response carries one
\* result entry for each file of the request
C14_ErrorIsPerFile ==
    [][LET r == last'
           files == FilesOf(r)
           throws(k) == Throws(files[k], r.faults[k], r.nanStored)
       IN  (/\ r.op = "upload"
            /\ Len(files) > 1
            /\ \E k \in DOMAIN files : throws(k)
            /\ \A k \in DOMAIN files : r.faults[k] # "none" => throws(k))
           => /\ r.status = "200"
              /\ Len(r.results) = Len(files)
              /\ \A k \in DOMAIN r.results :
                     r.results[k].status =
                         IF throws(k) THEN "error" ELSE "processed"
              /\ Store' = StoreAfter(files, r.faults, r.nanStored, 1, Store)
      ]_vars

\* a request of three files whose second file threw: answered, file by file
C14_Witness ==
    /\ last.op = "upload"
    /\ last.status = "200"
    /\ Len(last.results) = 3
    /\ last.results[1].status = "processed"
    /\ last.results[2].status = "error"
    /\ last.results[3].status = "processed"
    /\ bookingPayments # << >>
    /\ cardPayments # << >>

\* the ImportedFile row the claim gives the file: the detected type and the
\* record count of processFile, or ERROR and 0 when processFile throws
AuditOf(file, nanStored) ==
    LET p == processFile(file, EmptyStore, FALSE, nanStored) IN
    IF p.outcome = "rejected" THEN [type |-> "ERROR", recordCount |-> 0]
    ELSE [type |-> p.result.type, recordCount |-> p.result.count]

\* C15: every file of an upload (the environment failing nothing but,
\* possibly, the write of a normalizer) adds exactly one ImportedFile row:
\* of the detected type and record count when its processing succeeds, of
\* type ERROR and recordCount 0 when it throws
C15_OneRowPerFile ==
    [][LET r == last'
           files == FilesOf(r)
           n == Len(importedFiles)
       IN  (/\ r.op = "upload"
            /\ \A k \in DOMAIN files : r.faults[k] \in {"none", "store"})
           => /\ Len(importedFiles') = n + Len(files)
              /\ SubSeq(importedFiles', 1, n) = importedFiles
              /\ \A k \in DOMAIN files :
                     /\ importedFiles'[n + k].originalName = r.files[k]
                     /\ importedFiles'[n + k].type =
                            AuditOf(files[k], r.nanStored).type
                     /\ importedFiles'[n + k].recordCount =
                            AuditOf(files[k], r.nanStored).recordCount
      ]_vars

\* a request whose files left a row of type UNKNOWN, a row of type ERROR
\* and a row that counts records
C15_Witness ==
    /\ last.op = "upload"
    /\ last.status = "200"
    /\ \E i, j, k \in DOMAIN importedFiles :
        /\ importedFiles[i].type = "UNKNOWN"
        /\ importedFiles[j].type = "ERROR"
        /\ importedFiles[k].recordCount > 0

\* the file was imported before: an ImportedFile row of its name that is no
\* ERROR row
ImportedBefore(name) ==
    \E k \in DOMAIN importedFiles :
        /\ importedFiles[k].originalName = name
        /\ importedFiles[k].type # "ERROR"

\* C16: an upload of an online-payout file or of a PMS-invoice file that
\* was imported before leaves the number of stored payments and of stored
\* invoices as it was, also when the file carries one key on several rows
C16_ReimportKeepsRowCount ==
    [][LET r == last' IN
       (/\ r.op = "upload"
        /\ Len(r.files) = 1
        /\ ImportedBefore(r.files[1])
        /\ AuditOf(FileNamed(r.files[1]), r.nanStored).type
               \in {"BOOKING", "IBELSA"})
       => /\ Len(bookingPayments') = Len(bookingPayments)
          /\ Len(invoices') = Len(invoices)
      ]_vars

\* dup.csv, two rows of one reference number, imported twice: one payment
C16_Witness ==
    /\ last.op = "upload"
    /\ last.status = "200"
    /\ Len(importedFiles) = 2
    /\ importedFiles[1].originalName = fBookingDup.originalName
    /\ importedFiles[2].originalName = fBookingDup.originalName
    /\ importedFiles[1].recordCount = 2
    /\ importedFiles[2].recordCount = 2
    /\ Len(bookingPayments) = 1

FormatOf(file) ==
    LET h == header(file) IN
    IF IsBookingHeader(h) THEN "BOOKING"
    ELSE IF IsIbelsaHeader(h) THEN "IBELSA"
    ELSE IF IsBankHeader(h) THEN "BANK"
    ELSE IF IsNexiHeader(h) \/ IsGenericHeader(h) THEN "NEXI"
    ELSE "UNKNOWN"

\* a date cell that holds a text parseDate makes no date of, an amount cell
\* that parseAmount makes no number of
BadDate(cell) == cell # << >> /\ parseDate(cell) \in {NullDate, InvalidDate}
BadAmount(cell) == parseAmount(cell) = NaN

\* the record has a date or amount field, among those the normalizer of the
\* type reads, that cannot be parsed
Unparseable(type, row, colMap) ==
    CASE type = "IBELSA" -> BadDate(Cell(row, 0)) \/ BadAmount(Cell(row, 5))
      [] type = "BANK" -> BadDate(Cell(row, 4)) \/ BadAmount(Cell(row, 11))
      [] type = "NEXI" ->
            \/ BadDate(Cell(row, 2))
            \/ BadAmount(Cell(row, 10))
            \/ BadAmount(Cell(row, 11))
      [] type = "BOOKING" ->
            \/ BadDate(Cell(row, colMap.checkIn))
            \/ BadDate(Cell(row, colMap.checkOut))
            \/ BadDate(Cell(row, colMap.payout))
            \/ BadAmount(Cell(row, colMap.amount))
      [] OTHER -> FALSE

\* the data lines of the file that hold such a field
UnparseableLines(file) ==
    LET type == FormatOf(file)
        colMap == ColMap(Records(file, 1)[1])
    IN  {k \in 2..Len(file.lines) :
            Unparseable(type, Records(file, 1)[k], colMap)}

\* the file without those lines
Cleaned(file) ==
    LET kept == SelectSeq([k \in DOMAIN file.lines |-> k],
                    LAMBDA k : k \notin UnparseableLines(file))
    IN  [file EXCEPT !.lines = [i \in DOMAIN kept |-> file.lines[kept[i]]]]

\* C18: a data row whose date or amount field cannot be parsed is skipped
\* and never aborts the file: the upload of the file is answered, reports
\* the file as processed, and counts and stores what the file without
\* those rows gives
C18_UnparseableRowSkipped ==
    [][LET r == last'
           file == FileNamed(r.files[1])
           clean == processContent(Reading(Cleaned(file)), Store, FALSE,
                        r.nanStored)
       IN  (/\ r.op = "upload"
            /\ Len(r.files) = 1
            /\ r.faults[1] = "none"
            /\ UnparseableLines(file) # {}
            /\ clean.outcome = "resolved")
           => /\ r.status = "200"
              /\ r.results[1].status = "processed"
              /\ r.results[1].count = clean.result.count
              /\ Store' = clean.store
      ]_vars

\* bank.csv, whose second row has no date: one of two rows stored
C18_Witness ==
    /\ last.op = "upload"
    /\ last.files = <<fBank.originalName>>
    /\ last.status = "200"
    /\ last.results[1].count = 1
    /\ Len(bankTransactions) = 1

\* no cell of the header line holds one of the words
NoColumn(file, words) ==
    LET cells == Records(file, 1)[1] IN
    \A i \in DOMAIN cells, w \in words :
        ~includes(trim(toLowerCase(cells[i])), w)

\* an online-payout file with data rows whose header names no reference
\* column or no amount column
MissesCriticalColumn(file) ==
    /\ FormatOf(file) = "BOOKING"
    /\ Len(file.lines) >= 2
    /\ \/ NoColumn(file, {hReferenz, hReference, hBookingNumber})
       \/ NoColumn(file, {hBetrag, hAmount, hTotal})

\* C19: the upload of an online-payout file whose header has no reference
\* column or no amount column stores nothing, does not throw, reports type
\* BOOKING with count 0, and records the file as an ImportedFile with
\* recordCount 0 and the log line of the missing critical columns
C19_MissingColumnIsRecorded ==
    [][LET r == last'
           n == Len(importedFiles)
       IN  (/\ r.op = "upload"
            /\ Len(r.files) = 1
            /\ MissesCriticalColumn(FileNamed(r.files[1])))
           => /\ Store' = Store
              /\ r.status = "200"
              /\ r.results[1].status = "processed"
              /\ r.results[1].type = "BOOKING"
              /\ r.results[1].count = 0
              /\ Len(importedFiles') = n + 1
              /\ importedFiles'[n + 1].originalName = r.files[1]
              /\ importedFiles'[n + 1].type = "BOOKING"
              /\ importedFiles'[n + 1].recordCount = 0
              /\ \E k \in DOMAIN importedFiles'[n + 1].logs :
                     importedFiles'[n + 1].logs[k] = LogCritical
      ]_vars

\* noref.csv and noamt.csv were uploaded: two rows of count 0, no payment
C19_Witness ==
    /\ last.op = "upload"
    /\ last.status = "200"
    /\ Len(importedFiles) = 2
    /\ importedFiles[1].originalName = fBookingNoRef.originalName
    /\ importedFiles[2].originalName = fBookingNoAmount.originalName
    /\ importedFiles[1].recordCount = 0
    /\ importedFiles[2].recordCount = 0
    /\ LogCritical \in {importedFiles[2].logs[k] :
                           k \in DOMAIN importedFiles[2].logs}
    /\ bookingPayments = << >>

\* the tables no normalizer of the format writes are as they were
OnlyTableOf(format) ==
    /\ format # "IBELSA" => invoices' = invoices
    /\ format # "BOOKING" => bookingPayments' = bookingPayments
    /\ format # "NEXI" => cardPayments' = cardPayments
    /\ format # "BANK" => bankTransactions' = bankTransactions

\* C20: a file is handled by the normalizer of the first format, in the
\* order online-payout, PMS-invoice, bank-statement, card-settlement,
\* generic Date and Amount, whose test its first line passes, whatever its
\* other lines hold; a file whose first line passes no test is reported as
\* processed with type UNKNOWN and count 0, and nothing is written
C20_ClassifiedByFirstLineInOrder ==
    [][LET r == last'
           format == FormatOf(FileNamed(r.files[1]))
       IN  (r.op = "upload" /\ Len(r.files) = 1)
           => /\ OnlyTableOf(format)
              /\ r.status = "200" /\ r.results[1].status = "processed"
                     => r.results[1].type = format
              /\ format = "UNKNOWN"
                     => /\ r.status = "200"
                        /\ r.results[1].status = "processed"
                        /\ r.results[1].count = 0
                        /\ Store' = Store
      ]_vars

\* bi.csv, whose header passes the online-payout and the PMS-invoice test,
\* went to the online-payout normalizer; unknown.csv was reported UNKNOWN
C20_Witness ==
    /\ IsBookingHeader(header(fBookingIbelsa))
    /\ IsIbelsaHeader(header(fBookingIbelsa))
    /\ last.op = "upload"
    /\ last.status = "200"
    /\ Len(importedFiles) = 2
    /\ importedFiles[1].originalName = fBookingIbelsa.originalName
    /\ importedFiles[1].type = "BOOKING"
    /\ importedFiles[1].recordCount = 1
    /\ importedFiles[2].originalName = fUnknown.originalName
    /\ importedFiles[2].type = "UNKNOWN"
    /\ Len(bookingPayments) = 1
    /\ invoices = << >>

\* the net and gross cases of an uploaded card-settlement file
IsCardFile(name) == \E f \in CardFiles : f.originalName = name

CardCase(name) ==
    CHOOSE c \in AmountCases \X AmountCases :
        CardFile(c[1], c[2]).originalName = name

\* the last upload was of one card-settlement file and stored its row
CardRowStored(r) ==
    /\ r.op = "upload"
    /\ Len(r.files) = 1
    /\ IsCardFile(r.files[1])
    /\ r.status = "200"
    /\ r.results[1].status = "processed"
    /\ r.results[1].count = 1

DecimalSeparator(text) ==
    LET commas == {i \in DOMAIN text : text[i] = ","}
        dots == {i \in DOMAIN text : text[i] = "."}
    IN  IF commas = {} /\ dots = {} THEN ""
        ELSE IF dots = {} THEN ","
        ELSE IF commas = {} THEN "."
        ELSE IF SetMax(commas) > SetMax(dots) THEN "," ELSE "."

\* the text without the separator that is not the decimal separator
Stripped(text) ==
    SelectSeq(text, LAMBDA c : c \notin ({",", "."} \ {DecimalSeparator(text)}))

\* the digits before the decimal separator and the digits behind it
WholePart(text) ==
    LET s == Stripped(text) IN SubSeq(s, 1, DigitPrefix(s))

FractionPart(text) ==
    LET s == Stripped(text)
        n == DigitPrefix(s)
        rest == SubSeq(s, n + 2, Len(s))
    IN  IF n < Len(s) /\ s[n + 1] = DecimalSeparator(text)
        THEN SubSeq(rest, 1, DigitPrefix(rest))
        ELSE << >>

\* the amount the text writes, in thousandths
WrittenAmount(text) ==
    ValueOf(WholePart(text)) * 1000
        + ValueOf(SubSeq(FractionPart(text) \o <<"0", "0", "0">>, 1, 3))

\* C22: parseAmount takes of comma and dot the one whose last occurrence is
\* later as the decimal separator and strips the other; a text without
\* separators is parsed as its digits; the empty text gives 0; 1.234,56 and
\* 1,234.56 both give 1234.56
C22_LastSeparatorIsDecimal ==
    [][last'.op = "parseAmount" =>
          LET text == last'.text IN
          /\ text = << >> => last'.value = 0
          /\ WholePart(text) # << >> \/ FractionPart(text) # << >>
                 => last'.value = WrittenAmount(text)
          /\ text \in {t1234German, t1234English} => last'.value = 1234560
      ]_vars

\* 1,234.56 parsed to 1234.56
C22_Witness ==
    /\ last.op = "parseAmount"
    /\ last.text = t1234English
    /\ last.value = 1234560

\* getDate(), getMonth() + 1 and getFullYear() of the date t on a server
\* whose zone is zone hours ahead of UTC
LocalDateFields(zone, t) == DateFields(t + zone)

\* C23: a calendar date written as D.M.Y, as Y-M-D with a year of four
\* digits, or as "day month-name year" under a German or English, short or
\* long name of the month, is parsed by parseDate to a date of the same day,
\* month and year
C23_ParseDateRoundTrip ==
    [][last'.op = "parseDate" =>
          /\ last'.value \notin {NullDate, InvalidDate}
          /\ LocalDateFields(last'.zone, last'.value) = last'.date
      ]_vars

\* the round trip holds for every notation where the zone is not behind
\* UTC, and for every notation but YYYY-MM-DD in every zone
C23_RoundTripUnlessDateOnlyWestOfUtc ==
    [][last'.op = "parseDate"
           /\ (last'.zone >= 0 \/ ~IsDateOnlyForm(last'.text)) =>
          /\ last'.value \notin {NullDate, InvalidDate}
          /\ LocalDateFields(last'.zone, last'.value) = last'.date
      ]_vars

\* 2025-06-15 parsed five hours behind UTC reads back as the 14th
C23_Witness ==
    /\ last.op = "parseDate"
    /\ last.zone = 0 - 5
    /\ last.text = <<"2", "0", "2", "5", "-", "0", "6", "-", "1", "5">>
    /\ last.date = <<15, 6, 2025>>
    /\ LocalDateFields(last.zone, last.value) = <<14, 6, 2025>>

\* the payments of channel ch claimed by the run r before it processes the
\* invoice at position k of its list
ClaimedBefore(r, k, ch) ==
    {PaymentOf(r.matchesToCreate[n], ch) :
        n \in {n \in 1..Len(r.matchesToCreate) :
                 \E j \in 1..(k - 1) :
                     r.matchesToCreate[n].invoiceId = r.invoices[j]}}

\* a match of invoice i with payment p of channel ch
MatchOf(i, ch, p) ==
    [NoMatch EXCEPT !.invoiceId = i,
                    !.bookingPaymentId = IF ch = "BOOKING" THEN p ELSE NoId,
                    !.cardPaymentId = IF ch = "NEXI" THEN p ELSE NoId,
                    !.bankTransactionId = IF ch = "BANK" THEN p ELSE NoId]

\* the positions in the candidate list of channel ch whose payment is
\* unclaimed when the invoice at position k is processed and satisfies
\* Rule with it
FitsAt(r, k, ch, Rule(_, _, _)) ==
    LET avail == AvailableIn(r, ch) IN
    {n \in 1..Len(avail) :
        /\ avail[n] \notin ClaimedBefore(r, k, ch)
        /\ Rule(r.invoices[k], ch, avail[n])}

\* every invoice of the run r is matched with the first unclaimed candidate
\* of its channel that satisfies Rule, and with none when there is none
FirstFit(r, Rule(_, _, _)) ==
    \A k \in 1..Len(r.invoices) :
        LET i == r.invoices[k]
            ch == DispatchOf(invoices[i].paymentType)
        IN  IF ch \notin Channels
            THEN i \notin Range(r.invoiceIdsToReconcile)
            ELSE LET fits == FitsAt(r, k, ch, Rule) IN
                 IF fits = {}
                 THEN i \notin Range(r.invoiceIdsToReconcile)
                 ELSE Assigned(r, i, ch, AvailableIn(r, ch)[SetMin(fits)])

\* the rule of the channel: amounts at most 0.01 apart, and the date window
\* or the reference, the days, or the days and a name or number hit
StatedRule(i, ch, p) == SatisfiesRule(MatchOf(i, ch, p))

\* C24: matching is first-fit and complete: an invoice is matched with the
\* first payment in the candidate list of its channel that is unclaimed and
\* satisfies the rule of the channel, and is left unmatched only when no
\* unclaimed candidate satisfies it; so the Booking.com invoice of 15 June
\* 2025 over 82.00 is matched with the payout of 82.00 (check-in 10 June,
\* paid out 12 June), and "Rechnung 18800 / 2025" with the transfer
\* "Zahlung Rechnung 18800"
C24_FirstFitAndComplete ==
    last.op = "reconcile" /\ last.invoices # << >> => FirstFit(last, StatedRule)

\* the same with the amounts compared as the run compares them: in binary
\* floating point, where 82.01 - 82.00 is above 0.01
C24_FirstFitOfComputedRule ==
    last.op = "reconcile" /\ last.invoices # << >> =>
        FirstFit(last, LAMBDA i, ch, p : Eligible(i, ch, p))

\* a run has left the Booking.com invoice over 82.00 unmatched although its
\* one candidate, a payout of 82.01 in its date window, was unclaimed
C24_Witness ==
    /\ IsGoodRun(last)
    /\ \E k \in 1..Len(last.invoices) :
        LET i == last.invoices[k] IN
        /\ invoices[i].invoiceNumber = tR1
        /\ invoices[i].amount = 8200
        /\ i \notin Range(last.invoiceIdsToReconcile)
        /\ \E p \in Range(last.availableBookings) :
            /\ bookingPayments[p].amount = 8201
            /\ p \notin ClaimedBefore(last, k, "BOOKING")
            /\ BookingDateMatch(invoices[i], bookingPayments[p])

\* a run that had two fitting payouts to choose from has matched both
\* examples: R1 with the first payout of its list, Rechnung 18800 with the
\* transfer
C24_ExamplesMatched ==
    /\ IsGoodRun(last)
    /\ Len(last.availableBookings) = 2
    /\ \E i \in Range(last.invoices) :
        /\ invoices[i].invoiceNumber = tR1
        /\ Assigned(last, i, "BOOKING", last.availableBookings[1])
        /\ bookingPayments[last.availableBookings[1]].amount = 8200
    /\ \E i \in Range(last.invoices) :
        /\ invoices[i].invoiceNumber = tRechnung18800
        /\ \E m \in Range(last.matchesToCreate) :
            /\ m.invoiceId = i
            /\ m.bankTransactionId # NoId
            /\ m.matchType = "MANUAL_REF"
            /\ m.confidence = 100

\* the date the lookback of a channel is applied to
LookbackDate(ch, p) ==
    CASE ch = "BOOKING" -> bookingPayments[p].checkInDate
      [] ch = "NEXI"    -> cardPayments[p].transactionDate
      [] ch = "BANK"    -> bankTransactions[p].bookingDate

\* C25: no match a run creates references a payment whose date (check-in
\* date of an online payout, transaction date of a card settlement, booking
\* date of a bank transaction) lies more than nine months before the start
\* of the run
C25_NoMatchBeyondLookback ==
    [][RunStep =>
          \A k \in 1..Len(last'.matchesToCreate), ch \in Channels :
              LET p == PaymentOf(last'.matchesToCreate[k], ch) IN
              p # NoId => LookbackDate(ch, p) >= nineMonthsAgo(now)
      ]_vars

\* a run on the 9th of November 2025 has loaded an invoice that satisfies
\* the rule of its channel with a payment dated the 8th of February 2025
\* that has no match, and has left the invoice unmatched
C25_Witness ==
    /\ IsGoodRun(last)
    /\ now = Now0 + oneDay
    /\ \E i \in Range(last.invoices), ch \in Channels :
        /\ i \notin Range(last.invoiceIdsToReconcile)
        /\ \E p \in PaymentIds(ch) :
            /\ Eligible(i, ch, p)
            /\ LookbackDate(ch, p) = Day(20127)
            /\ \A m \in BagToSet(matches) : PaymentOf(m, ch) # p

\* the import of the one-row file <<row>> finds the payment id stored under
\* the reference of the row, and leaves the number of payments, the
\* reference of the payment, every other payment and every match as they
\* were
ReimportedInPlace(row, id) ==
    /\ Len(bookingPayments') = Len(bookingPayments)
    /\ bookingPayments'[id].referenceNumber = row.ref
    /\ \A j \in 1..Len(bookingPayments) :
           j # id => bookingPayments'[j] = bookingPayments[j]
    /\ matches' = matches

LeftUnmatchedByReference(r, i, p) ==
    /\ i \in Range(r.invoices)
    /\ DispatchOf(invoices[i].paymentType) = "BOOKING"
    /\ invoices[i].amount = bookingPayments[p].amount
    /\ RefContained(invoices[i], bookingPayments[p])
    /\ RowsWhere(LAMBDA m : m.invoiceId = i) = 0
    /\ RowsWhere(LAMBDA m : m.bookingPaymentId = p) = 0

\* C27: an online payout paid out within the nine months before a run is a
\* candidate of the run whatever its stored check-in date is: when its
\* amount is that of a Booking.com invoice and its reference is contained
\* in the recipient or the comment of the invoice, the run does not leave
\* both without a match, whatever the date of the invoice
C27_PaidOutRecentlyIsCandidate ==
    IsGoodRun(last) =>
        \A i \in InvoiceIds, p \in BookingIds :
            bookingPayments[p].payoutDate >= nineMonthsAgo(now)
                => ~LeftUnmatchedByReference(last, i, p)

\* the same for the payouts whose stored check-in date lies within the nine
\* months before the run
C27_CheckedInRecentlyIsCandidate ==
    IsGoodRun(last) =>
        \A i \in InvoiceIds, p \in BookingIds :
            bookingPayments[p].checkInDate >= nineMonthsAgo(now)
                => ~LeftUnmatchedByReference(last, i, p)

\* a run has left the invoice to "Li 66" and the payout 66, paid out on 12
\* June 2025 and stored without a check-in date, both without a match
C27_Witness ==
    /\ IsGoodRun(last)
    /\ \E i \in InvoiceIds, p \in BookingIds :
        /\ LeftUnmatchedByReference(last, i, p)
        /\ bookingPayments[p].checkInDate = 0
        /\ bookingPayments[p].payoutDate = Day(20251)
        /\ bookingPayments[p].payoutDate >= nineMonthsAgo(now)

\* a run has matched the invoice of 31 July 2025 with the payout 66 of
\* check-in 10 June and payout 12 June by its reference
C27_MatchedOutsideWindow ==
    /\ IsGoodRun(last)
    /\ \E m \in Range(last.matchesToCreate) :
        /\ m.bookingPaymentId # NoId
        /\ m.matchType = "MANUAL_REF"
        /\ invoices[m.invoiceId].invoiceDate = Day(20300)
        /\ bookingPayments[m.bookingPaymentId].payoutDate = Day(20251)
        /\ ~BookingDateMatch(invoices[m.invoiceId],
                             bookingPayments[m.bookingPaymentId])

\* the invoice is flagged as reconciled exactly when it has a match or is
\* manually verified
FlagAgrees(i) ==
    invoices[i].isReconciled
        <=> (MatchesOfInvoice(i) # {} \/ invoices[i].manualStatus)

\* C28: in every reachable state, after imports, runs and set-manual-status
\* calls of which any may fail partway, an invoice has isReconciled = true
\* exactly when it has a ReconciliationMatch or manualStatus = true, and no
\* run gives a match to a manually verified invoice
C28_ReconciledIffMatchedOrManual ==
    /\ \A i \in InvoiceIds : FlagAgrees(i)
    /\ last.op = "reconcile" =>
           \A k \in 1..Len(last.matchesToCreate) :
               ~invoices[last.matchesToCreate[k].invoiceId].manualStatus

\* a set-manual-status call with status false whose deleteMany is done and
\* whose invoice update is rejected
UnverifyFailsAtUpdate == \E id \in InvoiceIds : Verify(id, FALSE, "update")

\* every other step keeps the flags in agreement, the failing runs and the
\* other failing set-manual-status calls included; a manually verified
\* invoice is flagged in every state
C28_AgreesUnlessUnverifyFailsAtUpdate ==
    [][/\ (\A i \in InvoiceIds : FlagAgrees(i)) /\ ~UnverifyFailsAtUpdate
           => \A i \in 1..Len(invoices') :
                  invoices'[i].isReconciled
                      <=> \/ invoices'[i].manualStatus
                          \/ \E m \in BagToSet(matches') : m.invoiceId = i
       /\ \A i \in 1..Len(invoices') :
              invoices'[i].manualStatus => invoices'[i].isReconciled
      ]_vars

\* an invoice is flagged as reconciled, has no match and is not manually
\* verified, while the payment it was matched with is stored without a match
C28_Witness ==
    \E i \in InvoiceIds :
        /\ invoices[i].isReconciled
        /\ ~invoices[i].manualStatus
        /\ MatchesOfInvoice(i) = {}
        /\ matches = EmptyBag
        /\ \E ch \in Channels :
               \E p \in PaymentIds(ch) : Eligible(i, ch, p)

\* C29: also when two runReconciliation invocations, or a run and a
\* set-manual-status call, overlap at their awaits, no payment is referenced
\* by two ReconciliationMatch rows and no invoice has two matches
C29_NoDoubleMatchUnderOverlap ==
    /\ \A ch \in Channels :
           \A p \in PaymentIds(ch) :
               RowsWhere(LAMBDA m : PaymentOf(m, ch) = p) <= 1
    /\ \A i \in InvoiceIds : RowsWhere(LAMBDA m : m.invoiceId = i) <= 1

\* both invocations have returned; the one invoice has two match rows and
\* the one online payout is referenced by both
C29_Witness ==
    /\ inFlight = << >>
    /\ Len(invoices) = 1
    /\ Len(bookingPayments) = 1
    /\ RowsWhere(LAMBDA m : m.invoiceId = 1) = 2
    /\ RowsWhere(LAMBDA m : m.bookingPaymentId = 1) = 2
    /\ invoices[1].isReconciled

\* the step is an upload of one file that changes one of the four tables
\* the normalizers write
RecordsPersisted ==
    /\ last'.op = "upload"
    /\ Len(last'.files) = 1
    /\ <<invoices, bookingPayments, cardPayments, bankTransactions>>'
           # <<invoices, bookingPayments, cardPayments, bankTransactions>>

\* the step is an upload of one file that adds an ImportedFile row of type
\* ERROR, or answers with a result of status error
ErrorRecorded ==
    /\ last'.op = "upload"
    /\ Len(last'.files) = 1
    /\ \/ /\ Len(importedFiles') = Len(importedFiles) + 1
          /\ importedFiles'[Len(importedFiles')].type = "ERROR"
       \/ \E k \in DOMAIN last'.results : last'.results[k].status = "error"

\* C30: an upload result of status error and an ImportedFile row of type
\* ERROR are produced only for a file none of whose records were persisted:
\* a file whose records were written is recorded with a row of its type that
\* counts records
C30_ErrorOnlyIfNothingPersisted ==
    [][/\ ErrorRecorded => ~RecordsPersisted
       /\ RecordsPersisted =>
              /\ Len(importedFiles') = Len(importedFiles) + 1
              /\ importedFiles'[Len(importedFiles')].type
                     \notin {"ERROR", "UNKNOWN"}
              /\ importedFiles'[Len(importedFiles')].recordCount > 0
      ]_vars

\* the same for the uploads under which fs.renameSync and
\* importedFile.create do not fail
C30_ErrorOnlyIfNothingPersistedUnlessAuditFails ==
    [][last'.op = "upload" /\ last'.faults \in {<<"none">>, <<"store">>} =>
          /\ ErrorRecorded => ~RecordsPersisted
          /\ RecordsPersisted =>
                 /\ Len(importedFiles') = Len(importedFiles) + 1
                 /\ importedFiles'[Len(importedFiles')].type
                        \notin {"ERROR", "UNKNOWN"}
                 /\ importedFiles'[Len(importedFiles')].recordCount > 0
      ]_vars

\* the first upload was answered with a result of status error and left an
\* ERROR row with recordCount 0, and the bank transactions of its file are
\* stored
C30_Witness ==
    /\ last.op = "upload"
    /\ last.status = "200"
    /\ last.faults = <<"create">>
    /\ Len(importedFiles) = 1
    /\ importedFiles[1].type = "ERROR"
    /\ importedFiles[1].recordCount = 0
    /\ last.results[1].status = "error"
    /\ Len(bankTransactions) > 0

Spec == Init /\ [][Next]_vars

SpecClock == Init /\ [][NextClock]_vars

SpecImport == Init /\ [][NextImport]_vars

SpecHist == Init /\ [][NextHist]_vars

SpecRules == Init /\ [][NextRules]_vars

SpecUpload == Init /\ [][NextUpload]_vars

SpecFiles == Init /\ [][NextFiles]_vars
SpecCards == Init /\ [][NextCards]_vars
SpecAmount == Init /\ [][NextAmount]_vars
SpecDate == Init /\ [][NextDate]_vars
SpecFit == Init /\ [][NextFit]_vars
SpecLookback == Init /\ [][NextLookback]_vars
SpecReimport == Init /\ [][NextReimport]_vars
SpecCandidate == Init /\ [][NextCandidate]_vars
SpecOverlap == Init /\ [][NextOverlap]_vars
SpecAudit == Init /\ [][NextAudit]_vars
====
